---- MODULE Spec2Model ----
(***************************************************************************)
(* A model of the two pieces of parallel-reduction code of the repository: *)
(*   - CustomCC, the CountedCompleter sub-class of                         *)
(*     _posts/2019-12-28-CountedCompleter.md, which forks a forest of      *)
(*     tasks over an int array and folds the partial sums bottom-up;       *)
(*   - the "presized collectors" patch to java.util.stream (Collector,     *)
(*     Collectors, ReduceOps, ReferencePipeline).                          *)
(***************************************************************************)
EXTENDS Integers, Sequences, FiniteSets, TLC

\* ------------------------------------------------------------------------
\* Bounds of the model
\* ------------------------------------------------------------------------
MaxN == 5            \* longest input array
MaxMinSize == 3      \* largest MIN_SIZE_PER_LEAF explored (the post uses 10_000)
MaxCores == 1        \* availableProcessors() explored
MaxWorkers == 2      \* worker threads of the pool

\* The element values explored: one that passes the filter e < 150, one that
\* does not.
Elems == {7, 200}
\* A value on which the mapping function raises (used by SpecErr only).
Bad == 13

Null == 0
Root == 1

\* A Java long that may lie outside the int range is kept as two 32-bit
\* words: hi the upper word, lo the lower word read as a signed int.
Long(n) == [hi |-> 0, lo |-> n]               \* 0 <= n <= Integer.MAX_VALUE
UnknownSize == [hi |-> -1, lo |-> -1]         \* -1L
\* (int) l: the narrowing conversion keeps the lower word
IntCast(l) == l.lo
\* 0 <= l <= Integer.MAX_VALUE
InInt(l) == l.hi = 0 /\ l.lo >= 0
\* exact sizes above Integer.MAX_VALUE: 2^31 + 1, 2^32 - 1, 2^32 + 2
HugeSizes == {[hi |-> 0, lo |-> -2147483647], [hi |-> 0, lo |-> -1], [hi |-> 1, lo |-> 2]}

VARIABLES
    arr,            \* final int[] arr
    targetLeaves,   \* TARGET_LEAVES
    minSizePerLeaf, \* MIN_SIZE_PER_LEAF
    numWorkers,     \* worker threads available to run tasks
    parent,         \* parent[t]: the completer of task t (Null for the root)
    pos,            \* pos[t]
    size,           \* size[t]
    res,            \* res[t]
    subs,           \* subs[t]: CustomCC[] (Java index k is element k+1)
    pending,        \* pending[t]: CountedCompleter.pending
    pc,             \* where the thread running compute() of t stands
    p,              \* p[t]: the loop variable of the fork loop
    a,              \* a[t]: the completer tryComplete of t is looking at
    c,              \* c[t]: the pending count tryComplete last read
    completed,      \* tasks on which onCompletion has run
    rootDone,       \* quietlyComplete() has been called on the root
    raised,         \* history: tasks whose leaf loop raised
    onCompletionBy, \* history: the threads (named by the task whose compute()
                    \* they run) that ran onCompletion(t), in order
    folded,         \* history: folded[t] lists the array indices whose elements
                    \* have gone into res[t], in the order they were folded in
    leafRuns,       \* history: leafRuns[t] counts the runs of t's leaf loop
    decBy,          \* history: decBy[t] lists, for each decrement of pending[t],
                    \* the task s whose arrival made it (t itself for t's own
                    \* compute(), else the child just completed)
    callerPc,       \* the thread that evaluates and then finishes
    result,         \* what the caller got
    finishCount,    \* history: number of times the result was taken
    \* --- ReferencePipeline.collect over a Collector -------------------------
    collector,      \* the Collector: container kind, whether it was built with a
                    \* sized supplier, characteristics
    input,          \* the elements the pipeline delivers
    isParallel,     \* isParallel()
    isOrdered,      \* isOrdered()
    exactSize,      \* the exact output size if known, else -1: a long
    collectPc,      \* where collect() stands
    strategy,       \* the TerminalOp collect() evaluates
    opRes,          \* UnorderedConcurrentCollectorOp.res
    sinks,          \* the leaves: their range, progress and ReducingSink.state
    container,      \* what evaluate() returned
    collected,      \* what collect() returned
    calls,          \* history: calls of the collector's functions
    factory,        \* history: the factory call that built the collector
    \* --- passgen/ServiceWorker.js ------------------------------------------
    workerState,    \* the state of the service worker in its life cycle
    caches,         \* CacheStorage: the caches in creation order, each a name
                    \* and its entries (URL -> Response)
    activatePc,     \* where the promise of the activate handler stands
    keyList,        \* the keyList that caches.keys() resolved with
    deleting,       \* the keys whose caches.delete(key) has not resolved yet
    events          \* the fetch events dispatched: request, position of the
                    \* promise chain, network response, answer

cfgVars == <<arr, targetLeaves, minSizePerLeaf, numWorkers>>
taskVars == <<parent, pos, size, res, subs, pending, pc, p, a, c>>
histVars == <<completed, rootDone, raised, onCompletionBy, folded, leafRuns, decBy>>
callerVars == <<callerPc, result, finishCount>>
collVars == <<collector, input, isParallel, isOrdered, exactSize, collectPc, strategy,
              opRes, sinks, container, collected, calls, factory>>
swVars == <<workerState, caches, activatePc, keyList, deleting, events>>
vars == <<cfgVars, taskVars, histVars, callerVars, collVars, swVars>>

\* ------------------------------------------------------------------------
\* Pure functions
\* ------------------------------------------------------------------------
Min(x, y) == IF x < y THEN x ELSE y

RECURSIVE BitLength(_)
BitLength(x) == IF x <= 0 THEN 0 ELSE 1 + BitLength(x \div 2)

\* Integer.numberOfLeadingZeros for a non-negative int
numberOfLeadingZeros(x) == 32 - BitLength(x)

\* A variant without the test for leaves == 0.
computeInitialPending_NoZeroCheck(sz, target, minSize) ==
    LET leaves == Min(target, sz \div minSize)
    IN  31 - numberOfLeadingZeros(leaves)

\* A variant that returns the bit length of leaves.
computeInitialPending_BitLength(sz, target, minSize) ==
    LET leaves == Min(target, sz \div minSize)
    IN  IF leaves = 0 THEN 0 ELSE 32 - numberOfLeadingZeros(leaves)

\* A variant that rounds the logarithm up.
computeInitialPending_CeilLog2(sz, target, minSize) ==
    LET leaves == Min(target, sz \div minSize)
    IN  IF leaves = 0 THEN 0 ELSE 32 - numberOfLeadingZeros(leaves - 1)

\* A variant that rounds size / MIN_SIZE_PER_LEAF up.
computeInitialPending_CeilDiv(sz, target, minSize) ==
    LET leaves == Min(target, (sz + minSize - 1) \div minSize)
    IN  IF leaves = 0 THEN 0 ELSE 31 - numberOfLeadingZeros(leaves)

\* CustomCC.computeInitialPending, with the two static finals as parameters
computeInitialPending(sz, target, minSize) ==
    LET leaves == Min(target, sz \div minSize)
    IN  IF leaves = 0 THEN 0 ELSE 31 - numberOfLeadingZeros(leaves)

\* fnv is not defined in the repository; the post names it the
\* Fowler-Noll-Vo hash.  The table holds 32-bit FNV-1a of the int's four
\* bytes, as a signed int, for the element values of the model.
fnv(e) ==
    CASE e = 7   -> 1527855074
      [] e = 200 -> -1412914979
      [] OTHER   -> -76958204

\* Java's % truncates towards zero
JavaRem(x, m) == IF x >= 0 THEN x % m ELSE -((-x) % m)

\* a loop body with a wider remainder: res += fnv(e) % 500
Step_WideRem(r, e) == IF e < 150 THEN r + JavaRem(fnv(e), 500) ELSE r

\* the body of both loops: if (e < 150) res += fnv(e) % 5
Step(r, e) == IF e < 150 THEN r + JavaRem(fnv(e), 5) ELSE r

\* the sequential reference loop: fold over a[lo+1 .. hi] (0-based [lo, hi))
RECURSIVE Fold(_, _, _, _)
Fold(r, ar, lo, hi) == IF lo >= hi THEN r ELSE Fold(Step(r, ar[lo + 1]), ar, lo + 1, hi)

SequentialLoop(ar) == Fold(0, ar, 0, Len(ar))

\* the leaf loop of compute(), guarded as in the source
LeafLoop(r, ar, ps, sz) ==
    LET hi == ps + sz
    IN  IF Len(ar) >= hi /\ ps >= 0 /\ ps < hi THEN Fold(r, ar, ps, hi) ELSE r

\* does the leaf loop of a task meet an element on which fnv raises?
LeafRaises(ar, ps, sz) ==
    Len(ar) >= ps + sz /\ ps >= 0 /\ \E i \in ps + 1 .. ps + sz : ar[i] = Bad

\* for (CustomCC sub : subs) res += sub.res
RECURSIVE SumSubs(_, _, _)
SumSubs(r, ss, rs) == IF ss = <<>> THEN r ELSE SumSubs(r + rs[Head(ss)], Tail(ss), rs)

\* the array indices the leaf loop reads, in the order it reads them
LeafIndices(ar, ps, sz) ==
    IF Len(ar) >= ps + sz /\ ps >= 0 /\ ps < ps + sz
      THEN [k \in 1 .. sz |-> ps + k - 1]
      ELSE <<>>

\* the indices behind res after  for (CustomCC sub : subs) res += sub.res
RECURSIVE ConcatSubs(_, _, _)
ConcatSubs(os, ss, fs) ==
    IF ss = <<>> THEN os ELSE ConcatSubs(os \o fs[Head(ss)], Tail(ss), fs)

\* ------------------------------------------------------------------------
\* State
\* ------------------------------------------------------------------------
Tasks == 1 .. Len(pc)

Running == {t \in Tasks : pc[t] \in {"fork", "leaf", "tryComplete", "cas", "onCompletion"}}

Arrays(E) == UNION {[1 .. n -> E] : n \in 0 .. MaxN}

\* new CustomCC(arr)
NewRoot(ar, target, minSize) ==
    /\ arr = ar
    /\ targetLeaves = target
    /\ minSizePerLeaf = minSize
    /\ parent = <<Null>>
    /\ pos = <<0>>
    /\ size = <<Len(ar)>>
    /\ res = <<0>>
    /\ pending = <<computeInitialPending(Len(ar), target, minSize)>>
    /\ subs = <<[k \in 1 .. pending[1] |-> Null]>>
    /\ pc = <<"new">>
    /\ p = <<0>>
    /\ a = <<Null>>
    /\ c = <<0>>
    /\ completed = {}
    /\ rootDone = FALSE
    /\ raised = {}
    /\ onCompletionBy = <<<<>>>>
    /\ folded = <<<<>>>>
    /\ leafRuns = <<0>>
    /\ decBy = <<<<>>>>
    /\ result = 0
    /\ finishCount = 0

\* the collector was given, not built by a factory of the model
NotMade == [by |-> "given", downstream |-> <<>>, finisher |-> FALSE, passed |-> {}]

\* no collect() is under way
NoCollect ==
    /\ collector = [kind |-> "list", sized |-> FALSE, characteristics |-> {}]
    /\ input = <<>>
    /\ isParallel = FALSE
    /\ isOrdered = FALSE
    /\ exactSize = UnknownSize
    /\ collectPc = "idle"
    /\ strategy = "none"
    /\ opRes = [kind |-> "none"]
    /\ sinks = <<>>
    /\ container = [kind |-> "none"]
    /\ collected = [kind |-> "none"]
    /\ calls = <<>>
    /\ factory = NotMade

\* no service worker is registered
NoServiceWorker ==
    /\ workerState = "none"
    /\ caches = <<>>
    /\ activatePc = "idle"
    /\ keyList = <<>>
    /\ deleting = {}
    /\ events = <<>>

InitWith(E) ==
    /\ \E ar \in Arrays(E), cores \in 1 .. MaxCores, minSize \in 1 .. MaxMinSize :
          NewRoot(ar, cores * 4, minSize)
    /\ numWorkers \in 1 .. MaxWorkers
    /\ callerPc = "start"
    /\ NoCollect
    /\ NoServiceWorker

Init == InitWith(Elems)

\* ------------------------------------------------------------------------
\* Actions
\* ------------------------------------------------------------------------
\* A variant whose fork loop runs while p > 0.
AfterFork_Strict(pp) == IF pp > 0 THEN "fork" ELSE "leaf"

\* the pc of a task whose compute() starts or has just gone round the fork loop
AfterFork(pp) == IF pp >= 0 THEN "fork" ELSE "leaf"

\* The caller submits the root: root.invoke() runs compute() of the root.
Invoke ==
    /\ callerPc = "start"
    /\ callerPc' = "evaluating"
    /\ p' = [p EXCEPT ![Root] = Len(subs[Root]) - 1]
    /\ pc' = [pc EXCEPT ![Root] = AfterFork(Len(subs[Root]) - 1)]
    /\ UNCHANGED <<swVars, collVars, cfgVars, parent, pos, size, res, subs, pending, a, c, histVars,
                   result, finishCount>>

\* A free worker takes a forked task and starts its compute().
Start(t) ==
    /\ pc[t] = "forked"
    /\ Cardinality(Running) < numWorkers
    /\ p' = [p EXCEPT ![t] = Len(subs[t]) - 1]
    /\ pc' = [pc EXCEPT ![t] = AfterFork(Len(subs[t]) - 1)]
    /\ UNCHANGED <<swVars, collVars, cfgVars, parent, pos, size, res, subs, pending, a, c, histVars,
                   callerVars>>

\* A variant that creates the child before halving size.
Fork_ChildBeforeHalving(t) ==
    /\ pc[t] = "fork"
    /\ LET half == size[t] \div 2
           sub  == Len(pc) + 1
       IN  /\ size' = Append([size EXCEPT ![t] = half], size[t])
           /\ pos' = Append(pos, pos[t] + size[t])
           /\ parent' = Append(parent, t)
           /\ pending' = Append(pending, p[t])
           /\ subs' = Append([subs EXCEPT ![t][p[t] + 1] = sub],
                             [k \in 1 .. p[t] |-> Null])
           /\ res' = Append(res, 0)
           /\ pc' = Append([pc EXCEPT ![t] = AfterFork(p[t] - 1)], "forked")
           /\ p' = Append([p EXCEPT ![t] = p[t] - 1], 0)
           /\ a' = Append(a, Null)
           /\ c' = Append(c, 0)
           /\ onCompletionBy' = Append(onCompletionBy, <<>>)
           /\ folded' = Append(folded, <<>>)
           /\ leafRuns' = Append(leafRuns, 0)
           /\ decBy' = Append(decBy, <<>>)
    /\ UNCHANGED <<swVars, collVars, cfgVars, completed, rootDone, raised, callerVars>>

\* A variant that stores the k-th child forked in slot k of subs.
Fork_FillAscending(t) ==
    /\ pc[t] = "fork"
    /\ LET half == size[t] \div 2
           sub  == Len(pc) + 1
       IN  /\ size' = Append([size EXCEPT ![t] = half], half)
           /\ pos' = Append(pos, pos[t] + half)
           /\ parent' = Append(parent, t)
           /\ pending' = Append(pending, p[t])
           /\ subs' = Append([subs EXCEPT ![t][Len(subs[t]) - p[t]] = sub],
                             [k \in 1 .. p[t] |-> Null])
           /\ res' = Append(res, 0)
           /\ pc' = Append([pc EXCEPT ![t] = AfterFork(p[t] - 1)], "forked")
           /\ p' = Append([p EXCEPT ![t] = p[t] - 1], 0)
           /\ a' = Append(a, Null)
           /\ c' = Append(c, 0)
           /\ onCompletionBy' = Append(onCompletionBy, <<>>)
           /\ folded' = Append(folded, <<>>)
           /\ leafRuns' = Append(leafRuns, 0)
           /\ decBy' = Append(decBy, <<>>)
    /\ UNCHANGED <<swVars, collVars, cfgVars, completed, rootDone, raised, callerVars>>

\* One round of the fork loop:
\*   size >>>= 1; sub = new CustomCC(this, arr, size, pos + size, p);
\*   subs[p] = sub; sub.fork();
Fork(t) ==
    /\ pc[t] = "fork"
    /\ LET half == size[t] \div 2
           sub  == Len(pc) + 1
       IN  /\ size' = Append([size EXCEPT ![t] = half], half)
           /\ pos' = Append(pos, pos[t] + half)
           /\ parent' = Append(parent, t)
           /\ pending' = Append(pending, p[t])
           /\ subs' = Append([subs EXCEPT ![t][p[t] + 1] = sub],
                             [k \in 1 .. p[t] |-> Null])
           /\ res' = Append(res, 0)
           /\ pc' = Append([pc EXCEPT ![t] = AfterFork(p[t] - 1)], "forked")
           /\ p' = Append([p EXCEPT ![t] = p[t] - 1], 0)
           /\ a' = Append(a, Null)
           /\ c' = Append(c, 0)
           /\ onCompletionBy' = Append(onCompletionBy, <<>>)
           /\ folded' = Append(folded, <<>>)
           /\ leafRuns' = Append(leafRuns, 0)
           /\ decBy' = Append(decBy, <<>>)
    /\ UNCHANGED <<swVars, collVars, cfgVars, completed, rootDone, raised, callerVars>>

\* A variant whose leaf loop adds into the result of the task's completer.
Leaf_IntoCompleter(t) ==
    /\ pc[t] = "leaf"
    /\ ~LeafRaises(arr, pos[t], size[t])
    /\ LET to == IF parent[t] = Null THEN t ELSE parent[t]
       IN  res' = [res EXCEPT ![to] = LeafLoop(res[to], arr, pos[t], size[t])]
    /\ folded' = [folded EXCEPT ![t] = @ \o LeafIndices(arr, pos[t], size[t])]
    /\ leafRuns' = [leafRuns EXCEPT ![t] = @ + 1]
    /\ a' = [a EXCEPT ![t] = t]
    /\ pc' = [pc EXCEPT ![t] = "tryComplete"]
    /\ UNCHANGED <<swVars, collVars, cfgVars, parent, pos, size, subs, pending, p, c, completed,
                   rootDone, raised, onCompletionBy, decBy, callerVars>>

\* The leaf loop over [pos, pos + size), then the call of tryComplete().
Leaf(t) ==
    /\ pc[t] = "leaf"
    /\ ~LeafRaises(arr, pos[t], size[t])
    /\ res' = [res EXCEPT ![t] = LeafLoop(res[t], arr, pos[t], size[t])]
    /\ folded' = [folded EXCEPT ![t] = @ \o LeafIndices(arr, pos[t], size[t])]
    /\ leafRuns' = [leafRuns EXCEPT ![t] = @ + 1]
    /\ a' = [a EXCEPT ![t] = t]
    /\ pc' = [pc EXCEPT ![t] = "tryComplete"]
    /\ UNCHANGED <<swVars, collVars, cfgVars, parent, pos, size, subs, pending, p, c, completed,
                   rootDone, raised, onCompletionBy, decBy, callerVars>>

\* A join-based variant: the thread waits until every child of the completer
\* has completed, then merges.
TryComplete_Join(t) ==
    /\ pc[t] = "tryComplete"
    /\ \A k \in 1 .. Len(subs[a[t]]) : subs[a[t]][k] \in completed
    /\ c' = [c EXCEPT ![t] = 0]
    /\ pc' = [pc EXCEPT ![t] = "onCompletion"]
    /\ UNCHANGED <<swVars, collVars, cfgVars, parent, pos, size, res, subs, pending, p, a, histVars,
                   callerVars>>

\* A variant that merges when at most one arrival is still due.
TryComplete_OffByOne(t) ==
    /\ pc[t] = "tryComplete"
    /\ c' = [c EXCEPT ![t] = pending[a[t]]]
    /\ pc' = [pc EXCEPT ![t] = IF pending[a[t]] <= 1 THEN "onCompletion" ELSE "cas"]
    /\ UNCHANGED <<swVars, collVars, cfgVars, parent, pos, size, res, subs, pending, p, a, histVars,
                   callerVars>>

\* A variant that decrements without testing the count for 0.
TryComplete_NoZeroTest(t) ==
    /\ pc[t] = "tryComplete"
    /\ c' = [c EXCEPT ![t] = pending[a[t]]]
    /\ pc' = [pc EXCEPT ![t] = "cas"]
    /\ UNCHANGED <<swVars, collVars, cfgVars, parent, pos, size, res, subs, pending, p, a, histVars,
                   callerVars>>

\* tryComplete: c = a.pending
TryComplete(t) ==
    /\ pc[t] = "tryComplete"
    /\ c' = [c EXCEPT ![t] = pending[a[t]]]
    /\ pc' = [pc EXCEPT ![t] = IF pending[a[t]] = 0 THEN "onCompletion" ELSE "cas"]
    /\ UNCHANGED <<swVars, collVars, cfgVars, parent, pos, size, res, subs, pending, p, a, histVars,
                   callerVars>>

\* tryComplete: the task s whose arrival at its completer a the thread of t
\* is delivering: t itself at first, then the task it has just completed
S(t) == IF a[t] = t THEN t
        ELSE CHOOSE u \in 1 .. Len(pc) : parent[u] = a[t] /\ onCompletionBy[u] = <<t>>

\* A variant in which the thread whose decrement brings the count to 0 also
\* runs the merge.
Cas_MergeAtZero(t) ==
    /\ pc[t] = "cas"
    /\ IF pending[a[t]] = c[t]
         THEN /\ pending' = [pending EXCEPT ![a[t]] = c[t] - 1]
              /\ pc' = [pc EXCEPT ![t] = IF c[t] = 1 THEN "onCompletion" ELSE "done"]
         ELSE /\ pc' = [pc EXCEPT ![t] = "tryComplete"]
              /\ UNCHANGED pending
    /\ decBy' = IF pending[a[t]] = c[t] THEN [decBy EXCEPT ![a[t]] = Append(@, S(t))]
                ELSE decBy
    /\ UNCHANGED <<swVars, collVars, cfgVars, parent, pos, size, res, subs, p, a, c, completed,
                   rootDone, raised, onCompletionBy, folded, leafRuns, callerVars>>

\* A variant that gives up instead of retrying when the compare-and-set fails.
Cas_NoRetry(t) ==
    /\ pc[t] = "cas"
    /\ IF pending[a[t]] = c[t]
         THEN pending' = [pending EXCEPT ![a[t]] = c[t] - 1]
         ELSE UNCHANGED pending
    /\ pc' = [pc EXCEPT ![t] = "done"]
    /\ decBy' = IF pending[a[t]] = c[t] THEN [decBy EXCEPT ![a[t]] = Append(@, S(t))]
                ELSE decBy
    /\ UNCHANGED <<swVars, collVars, cfgVars, parent, pos, size, res, subs, p, a, c, completed,
                   rootDone, raised, onCompletionBy, folded, leafRuns, callerVars>>

\* tryComplete: else if (a.compareAndSetPending(c, c - 1)) return;
Cas(t) ==
    /\ pc[t] = "cas"
    /\ IF pending[a[t]] = c[t]
         THEN /\ pending' = [pending EXCEPT ![a[t]] = c[t] - 1]
              /\ pc' = [pc EXCEPT ![t] = "done"]
         ELSE /\ pc' = [pc EXCEPT ![t] = "tryComplete"]
              /\ UNCHANGED pending
    /\ decBy' = IF pending[a[t]] = c[t] THEN [decBy EXCEPT ![a[t]] = Append(@, S(t))]
                ELSE decBy
    /\ UNCHANGED <<swVars, collVars, cfgVars, parent, pos, size, res, subs, p, a, c, completed,
                   rootDone, raised, onCompletionBy, folded, leafRuns, callerVars>>

\* tryComplete: a.onCompletion(s); if ((a = (s = a).completer) == null)
\*                { s.quietlyComplete(); return; }
\* onCompletion dereferences every slot of subs: an empty slot ends the
\* thread with a NullPointerException.
OnCompletion(t) ==
    /\ pc[t] = "onCompletion"
    /\ LET at == a[t]
       IN  IF \E k \in 1 .. Len(subs[at]) : subs[at][k] = Null
             THEN /\ pc' = [pc EXCEPT ![t] = "NullPointerException"]
                  /\ UNCHANGED <<res, a, histVars>>
             ELSE /\ res' = [res EXCEPT ![at] = SumSubs(res[at], subs[at], res)]
                  /\ folded' = [folded EXCEPT ![at] = ConcatSubs(@, subs[at], folded)]
                  /\ completed' = completed \cup {at}
                  /\ UNCHANGED <<raised, leafRuns, decBy>>
                  /\ onCompletionBy' = [onCompletionBy EXCEPT ![at] = Append(@, t)]
                  /\ IF parent[at] = Null
                       THEN /\ rootDone' = TRUE
                            /\ pc' = [pc EXCEPT ![t] = "done"]
                            /\ UNCHANGED a
                       ELSE /\ a' = [a EXCEPT ![t] = parent[at]]
                            /\ pc' = [pc EXCEPT ![t] = "tryComplete"]
                            /\ UNCHANGED rootDone
    /\ UNCHANGED <<swVars, collVars, cfgVars, parent, pos, size, subs, pending, p, c, callerVars>>

\* A variant with the leaf loop in try { } finally { tryComplete(); }.
LeafThrow_Finally(t) ==
    /\ pc[t] = "leaf"
    /\ LeafRaises(arr, pos[t], size[t])
    /\ pc' = [pc EXCEPT ![t] = "tryComplete"]
    /\ a' = [a EXCEPT ![t] = t]
    /\ raised' = raised \cup {t}
    /\ leafRuns' = [leafRuns EXCEPT ![t] = @ + 1]
    /\ UNCHANGED <<swVars, collVars, cfgVars, parent, pos, size, res, subs, pending, p, c, completed,
                   rootDone, onCompletionBy, folded, decBy, callerVars>>

\* A variant in which the exception cancels the tasks not yet started.
LeafThrow_CancelForked(t) ==
    /\ pc[t] = "leaf"
    /\ LeafRaises(arr, pos[t], size[t])
    /\ pc' = [u \in Tasks |-> IF u = t THEN "thrown"
                             ELSE IF pc[u] = "forked" THEN "cancelled" ELSE pc[u]]
    /\ raised' = raised \cup {t}
    /\ leafRuns' = [leafRuns EXCEPT ![t] = @ + 1]
    /\ UNCHANGED <<swVars, collVars, cfgVars, parent, pos, size, res, subs, pending, p, a, c, completed,
                   rootDone, onCompletionBy, folded, decBy, callerVars>>

\* The leaf loop meets an element on which fnv raises: the exception leaves
\* compute(), whose last statement, tryComplete(), is not reached.
LeafThrow(t) ==
    /\ pc[t] = "leaf"
    /\ LeafRaises(arr, pos[t], size[t])
    /\ pc' = [pc EXCEPT ![t] = "thrown"]
    /\ raised' = raised \cup {t}
    /\ leafRuns' = [leafRuns EXCEPT ![t] = @ + 1]
    /\ UNCHANGED <<swVars, collVars, cfgVars, parent, pos, size, res, subs, pending, p, a, c, completed,
                   rootDone, onCompletionBy, folded, decBy, callerVars>>

\* A variant that takes the result without waiting for the root.
GetRawResult_NoWait ==
    /\ callerPc = "evaluating"
    /\ result' = res[Root]
    /\ finishCount' = finishCount + 1
    /\ callerPc' = "returned"
    /\ UNCHANGED <<swVars, collVars, cfgVars, taskVars, histVars>>

\* invoke() returns once the root is complete; the caller takes
\* getRawResult().
GetRawResult ==
    /\ callerPc = "evaluating"
    /\ rootDone
    /\ result' = res[Root]
    /\ finishCount' = finishCount + 1
    /\ callerPc' = "returned"
    /\ UNCHANGED <<swVars, collVars, cfgVars, taskVars, histVars>>

Next ==
    \/ Invoke
    \/ \E t \in Tasks : Start(t)
    \/ \E t \in Tasks : Fork(t)
    \/ \E t \in Tasks : Leaf(t)
    \/ \E t \in Tasks : TryComplete(t)
    \/ \E t \in Tasks : Cas(t)
    \/ \E t \in Tasks : OnCompletion(t)
    \/ GetRawResult

Spec == Init /\ [][Next]_vars

\* The worker threads keep running: a step that stays possible is taken.
FairSpec == Spec /\ WF_vars(Next)

\* The same program on inputs that may hold an element on which fnv raises.
InitErr == InitWith(Elems \cup {Bad})

NextErr ==
    \/ Next
    \/ \E t \in Tasks : LeafThrow(t)

SpecErr == InitErr /\ [][NextErr]_vars

\* ------------------------------------------------------------------------
\* The containers of the collectors of the patch
\* ------------------------------------------------------------------------
Characteristics == {"CONCURRENT", "UNORDERED", "IDENTITY_FINISH"}

\* "list": ArrayList (toList), "set": HashSet (toSet), "sb": StringBuilder
\* (joining).  An element e of an "sb" pipeline is a CharSequence of e chars.
Kinds == {"list", "set", "sb"}

Max(x, y) == IF x > y THEN x ELSE y

Container(kind, cap, thr, dflt) ==
    [kind |-> kind, list |-> <<>>, set |-> {}, cap |-> cap, thr |-> thr, dflt |-> dflt,
     growths |-> 0]

\* no container yet
NoContainer == Container("none", 0, 0, FALSE)

\* the exception a constructor threw in place of a container
Thrown(exception) == Container(exception, 0, 0, FALSE)
IsThrown(cn) == cn.kind \in {"IllegalArgumentException", "NegativeArraySizeException"}

\* ArrayList::new as Supplier and as IntFunction
ArrayListNew == Container("list", 0, 0, TRUE)
ArrayListSized(n) ==
    IF n < 0 THEN Thrown("IllegalArgumentException") ELSE Container("list", n, 0, FALSE)

\* ArrayList.grow: the backing array is replaced by a longer one
ListGrow(cn, minCap) ==
    [cn EXCEPT !.cap = IF cn.cap > 0 \/ ~cn.dflt
                         THEN cn.cap + Max(minCap - cn.cap, cn.cap \div 2)
                         ELSE Max(10, minCap),
               !.growths = @ + 1]

\* List::add
ListAdd(cn, e) ==
    LET g == IF Len(cn.list) = cn.cap THEN ListGrow(cn, Len(cn.list) + 1) ELSE cn
    IN  [g EXCEPT !.list = Append(@, e)]

\* left.addAll(right)
ListAddAll(cn, es) ==
    LET g == IF Len(es) > cn.cap - Len(cn.list)
               THEN ListGrow(cn, Len(cn.list) + Len(es)) ELSE cn
    IN  [g EXCEPT !.list = @ \o es]

\* HashMap.tableSizeFor: the least power of two >= n
RECURSIVE PowerOfTwoAtLeast(_, _)
PowerOfTwoAtLeast(n, k) == IF k >= n THEN k ELSE PowerOfTwoAtLeast(n, 2 * k)

tableSizeFor(n) == PowerOfTwoAtLeast(n, 1)

\* HashSet::new as Supplier and as IntFunction: the table is allocated by the
\* first add; until then thr holds the initial capacity
HashSetNew == Container("set", 0, 0, TRUE)
HashSetSized(n) ==
    IF n < 0 THEN Thrown("IllegalArgumentException")
    ELSE Container("set", 0, tableSizeFor(n), FALSE)

\* HashMap.resize: allocates the table, or doubles it and moves the entries
\* (load factor 0.75)
Resize(cn) ==
    IF cn.cap > 0
      THEN [cn EXCEPT !.cap = 2 * cn.cap,
                      !.thr = IF cn.cap >= 16 THEN 2 * cn.thr ELSE (2 * cn.cap * 3) \div 4,
                      !.growths = @ + 1]
      ELSE IF cn.thr > 0
             THEN [cn EXCEPT !.cap = cn.thr, !.thr = (cn.thr * 3) \div 4]
             ELSE [cn EXCEPT !.cap = 16, !.thr = 12]

\* Set::add
SetAdd(cn, e) ==
    LET t == IF cn.cap = 0 THEN Resize(cn) ELSE cn
        u == [t EXCEPT !.set = @ \cup {e}]
    IN  IF e \in t.set THEN t
        ELSE IF Cardinality(u.set) > u.thr THEN Resize(u) ELSE u

\* addAll of a set: add of each element
RECURSIVE SetAddAll(_, _)
SetAddAll(cn, es) ==
    IF es = {} THEN cn
    ELSE LET e == CHOOSE x \in es : TRUE IN SetAddAll(SetAdd(cn, e), es \ {e})

\* StringBuilder::new as Supplier and as IntFunction
StringBuilderNew == Container("sb", 16, 0, TRUE)
StringBuilderSized(n) ==
    IF n < 0 THEN Thrown("NegativeArraySizeException") ELSE Container("sb", n, 0, FALSE)

RECURSIVE Chars(_)
Chars(es) == IF es = <<>> THEN 0 ELSE Head(es) + Chars(Tail(es))

\* StringBuilder::append of the CharSequences es
SbAppend(cn, es) ==
    LET needed == Chars(cn.list) + Chars(es)
        g == IF needed > cn.cap
               THEN [cn EXCEPT !.cap = Max(2 * cn.cap + 2, needed), !.growths = @ + 1]
               ELSE cn
    IN  [g EXCEPT !.list = @ \o es]

\* collector.supplier().get()
Supplier(cl) ==
    CASE cl.kind = "list" -> ArrayListNew
      [] cl.kind = "set"  -> HashSetNew
      [] cl.kind = "sb"   -> StringBuilderNew

\* A variant in which every collector presizes.
SizedSupplier_AlwaysSized(cl, n) ==
    CASE cl.kind = "list" -> ArrayListSized(n)
      [] cl.kind = "set"  -> HashSetSized(n)
      [] cl.kind = "sb"   -> StringBuilderSized(n)

\* collector.sizedSupplier().apply(n): the sized supplier the collector was
\* built with, else the default  ignored -> supplier().get()
SizedSupplier(cl, n) ==
    IF ~cl.sized THEN Supplier(cl)
    ELSE CASE cl.kind = "list" -> ArrayListSized(n)
           [] cl.kind = "set"  -> HashSetSized(n)
           [] cl.kind = "sb"   -> StringBuilderSized(n)

\* collector.accumulator().accept(cn, e)
Accumulator(cn, e) ==
    CASE cn.kind = "list" -> ListAdd(cn, e)
      [] cn.kind = "set"  -> SetAdd(cn, e)
      [] cn.kind = "sb"   -> SbAppend(cn, <<e>>)

\* A variant whose set combiner returns the larger operand as it is.
Combiner_LargerOnly(left, right) ==
    CASE left.kind = "list" -> ListAddAll(left, right.list)
      [] left.kind = "set"  -> IF Cardinality(left.set) < Cardinality(right.set)
                                 THEN right
                                 ELSE left
      [] left.kind = "sb"   -> SbAppend(left, right.list)

\* collector.combiner().apply(left, right)
Combiner(left, right) ==
    CASE left.kind = "list" -> ListAddAll(left, right.list)
      [] left.kind = "set"  -> IF Cardinality(left.set) < Cardinality(right.set)
                                 THEN SetAddAll(right, left.set)
                                 ELSE SetAddAll(left, right.set)
      [] left.kind = "sb"   -> SbAppend(left, right.list)

\* collector.finisher().apply(cn): an immutable copy of the contents
Finisher(cn) == [NoContainer EXCEPT !.kind = "result", !.list = cn.list, !.set = cn.set]

\* ------------------------------------------------------------------------
\* ReferencePipeline.collect
\* ------------------------------------------------------------------------
MaxInput == 3        \* longest pipeline output
MaxLeaves == 2       \* leaves a parallel evaluation splits the input into
CElems == {1, 2}     \* element values of the pipeline

Collectors ==
    {[kind |-> k, sized |-> z, characteristics |-> ch] :
        k \in Kinds, z \in BOOLEAN, ch \in SUBSET Characteristics}

Inputs == UNION {[1 .. n -> CElems] : n \in 0 .. MaxInput}

\* the ways of cutting [0, n) into at most k non-empty consecutive ranges
Cuts(n, k) ==
    {ct \in UNION {[1 .. j + 1 -> 0 .. n] : j \in 1 .. k} :
        /\ ct[1] = 0
        /\ ct[Len(ct)] = n
        /\ \A i \in 1 .. Len(ct) - 1 : ct[i] < ct[i + 1] \/ Len(ct) = 2}

\* the leaves of an evaluation, one per range
Leaves(ct, begun) ==
    [i \in 1 .. Len(ct) - 1 |->
        [lo |-> ct[i], hi |-> ct[i + 1], next |-> ct[i], begun |-> begun,
         state |-> NoContainer, combined |-> FALSE]]

NoCalls == [supplier |-> 0, sizedSupplier |-> <<>>, accumulator |-> 0, combiner |-> 0,
            finisher |-> 0]

\* the forest is not used
NoForest ==
    /\ NewRoot(<<>>, 4, 1)
    /\ numWorkers = 1
    /\ callerPc = "idle"

InitCollect ==
    /\ NoForest
    /\ collector \in Collectors
    /\ input \in Inputs
    /\ isParallel \in BOOLEAN
    /\ isOrdered \in BOOLEAN
    /\ exactSize \in {UnknownSize, Long(Len(input))} \cup HugeSizes
    /\ collectPc = "start"
    /\ strategy = "none"
    /\ opRes = NoContainer
    /\ sinks = <<>>
    /\ container = NoContainer
    /\ collected = NoContainer
    /\ calls = NoCalls
    /\ factory = NotMade
    /\ NoServiceWorker

forestVars == <<cfgVars, taskVars, histVars, callerVars>>

\* the condition under which collect() evaluates an
\* UnorderedConcurrentCollectorOp
UseConcurrent_NoOrderCheck ==
    /\ isParallel
    /\ "CONCURRENT" \in collector.characteristics

\* A variant that does not look at isParallel().
UseConcurrent_NoParallelCheck ==
    /\ "CONCURRENT" \in collector.characteristics
    /\ (~isOrdered \/ "UNORDERED" \in collector.characteristics)

UseConcurrent ==
    /\ isParallel
    /\ "CONCURRENT" \in collector.characteristics
    /\ (~isOrdered \/ "UNORDERED" \in collector.characteristics)

\* the container a sink or op starts from, for a long size that is -1 when
\* unknown:  size == -1 ? supplier.get() : sizedSupplier.apply((int) size)
NewState(sz) ==
    IF sz = UnknownSize THEN Supplier(collector)
    ELSE SizedSupplier(collector, IntCast(sz))

\* the calls after NewState(sz): a call of the sized supplier is recorded
\* with the size it was made for and the argument it got
CallsAfterNew(sz) ==
    IF sz = UnknownSize THEN [calls EXCEPT !.supplier = @ + 1]
    ELSE [calls EXCEPT !.sizedSupplier = Append(@, [size |-> sz, arg |-> IntCast(sz)])]

\* the stream is longer than an int can count: input holds its first
\* elements only, and the model follows the sink begun with the whole size
Huge == exactSize \in HugeSizes

\* where collect() stands once the container cn has been asked for
AfterNew(cn) == IF IsThrown(cn) THEN "thrown" ELSE "evaluating"

\* collect(): container = evaluate(new UnorderedConcurrentCollectorOp<>(collector)):
\* evaluateParallel up to the start of the ForEachTask for a parallel
\* pipeline, evaluateSequential, which throws, for a sequential one
CollectConcurrent ==
    /\ collectPc = "start"
    /\ UseConcurrent
    /\ strategy' = "UnorderedConcurrentCollectorOp"
    /\ IF isParallel
         THEN /\ opRes' = NewState(exactSize)
              /\ calls' = CallsAfterNew(exactSize)
              /\ \E ct \in Cuts(Len(input), MaxLeaves) : sinks' = Leaves(ct, TRUE)
              /\ collectPc' = AfterNew(opRes')
         ELSE /\ collectPc' = "IllegalStateException"
              /\ UNCHANGED <<opRes, calls, sinks>>
    /\ UNCHANGED <<swVars, factory, forestVars, collector, input, isParallel, isOrdered, exactSize,
                   container, collected>>

\* collect(): container = evaluate(ReduceOps.makeRef(collector)), up to the
\* creation of the sinks
CollectReduce ==
    /\ collectPc = "start"
    /\ ~UseConcurrent
    /\ strategy' = "ReduceOps"
    /\ \E ct \in Cuts(Len(input), IF isParallel /\ ~Huge THEN MaxLeaves ELSE 1) :
          sinks' = Leaves(ct, FALSE)
    /\ collectPc' = "evaluating"
    /\ UNCHANGED <<swVars, factory, forestVars, collector, input, isParallel, isOrdered, exactSize,
                   opRes, container, collected, calls>>

\* the size a leaf is begun with
BeginSize(i) ==
    IF exactSize = UnknownSize \/ Huge THEN exactSize
    ELSE Long(sinks[i].hi - sinks[i].lo)

\* ReducingSink.begin(size)
Begin(i) ==
    /\ collectPc = "evaluating"
    /\ strategy = "ReduceOps"
    /\ ~sinks[i].begun
    /\ sinks' = [sinks EXCEPT ![i].begun = TRUE, ![i].state = NewState(BeginSize(i))]
    /\ calls' = CallsAfterNew(BeginSize(i))
    /\ collectPc' = AfterNew(sinks'[i].state)
    /\ UNCHANGED <<swVars, factory, forestVars, collector, input, isParallel, isOrdered, exactSize,
                   strategy, opRes, container, collected>>

\* ReducingSink.accept(t): accumulator.accept(state, t)
Accept(i) ==
    /\ collectPc = "evaluating"
    /\ strategy = "ReduceOps"
    /\ sinks[i].begun
    /\ sinks[i].next < sinks[i].hi
    /\ sinks' = [sinks EXCEPT ![i].next = @ + 1,
                              ![i].state = Accumulator(@, input[sinks[i].next + 1])]
    /\ calls' = [calls EXCEPT !.accumulator = @ + 1]
    /\ UNCHANGED <<swVars, factory, forestVars, collector, input, isParallel, isOrdered, exactSize,
                   collectPc, strategy, opRes, container, collected>>

\* A variant in which every leaf accumulates into a container of its own.
AcceptConcurrent_Private(i) ==
    /\ collectPc = "evaluating"
    /\ strategy = "UnorderedConcurrentCollectorOp"
    /\ sinks[i].next < sinks[i].hi
    /\ sinks' = [sinks EXCEPT ![i].next = @ + 1,
                              ![i].state = Accumulator(IF @ = NoContainer
                                                         THEN Supplier(collector) ELSE @,
                                                       input[sinks[i].next + 1])]
    /\ opRes' = IF i = 1 THEN sinks'[1].state ELSE opRes
    /\ calls' = [calls EXCEPT !.accumulator = @ + 1]
    /\ UNCHANGED <<swVars, factory, forestVars, collector, input, isParallel, isOrdered, exactSize,
                   collectPc, strategy, container, collected>>

\* UnorderedConcurrentCollectorOp.accept(t): accumulator.accept(res, t), by
\* the thread of leaf i; the accumulator of a CONCURRENT collector is atomic
AcceptConcurrent(i) ==
    /\ collectPc = "evaluating"
    /\ strategy = "UnorderedConcurrentCollectorOp"
    /\ sinks[i].next < sinks[i].hi
    /\ sinks' = [sinks EXCEPT ![i].next = @ + 1]
    /\ opRes' = Accumulator(opRes, input[sinks[i].next + 1])
    /\ calls' = [calls EXCEPT !.accumulator = @ + 1]
    /\ UNCHANGED <<swVars, factory, forestVars, collector, input, isParallel, isOrdered, exactSize,
                   collectPc, strategy, container, collected>>

\* the leaf has taken every element of its range
Finished(sk) == sk.begun /\ sk.next = sk.hi /\ ~Huge

\* ReducingSink.combine(other): state = combiner.apply(state, other.state),
\* on two neighbouring leaves that are done
Combine(i) ==
    /\ collectPc = "evaluating"
    /\ strategy = "ReduceOps"
    /\ i + 1 <= Len(sinks)
    /\ Finished(sinks[i]) /\ Finished(sinks[i + 1])
    /\ sinks' = [j \in 1 .. Len(sinks) - 1 |->
                    IF j < i THEN sinks[j]
                    ELSE IF j > i THEN sinks[j + 1]
                    ELSE [sinks[i] EXCEPT !.hi = sinks[i + 1].hi,
                                          !.next = sinks[i + 1].hi,
                                          !.combined = TRUE,
                                          !.state = Combiner(sinks[i].state,
                                                             sinks[i + 1].state)]]
    /\ calls' = [calls EXCEPT !.combiner = @ + 1]
    /\ UNCHANGED <<swVars, factory, forestVars, collector, input, isParallel, isOrdered, exactSize,
                   collectPc, strategy, opRes, container, collected>>

\* evaluate() returns: the state of the one sink left, or the op's res once
\* the ForEachTask is done
Evaluated ==
    /\ collectPc = "evaluating"
    /\ \A i \in 1 .. Len(sinks) : Finished(sinks[i])
    /\ IF strategy = "ReduceOps"
         THEN Len(sinks) = 1 /\ container' = sinks[1].state
         ELSE container' = opRes
    /\ collectPc' = "evaluated"
    /\ UNCHANGED <<swVars, factory, forestVars, collector, input, isParallel, isOrdered, exactSize,
                   strategy, opRes, sinks, collected, calls>>

\* return IDENTITY_FINISH ? (R) container : collector.finisher().apply(container)
Finish ==
    /\ collectPc = "evaluated"
    /\ IF "IDENTITY_FINISH" \in collector.characteristics
         THEN collected' = container /\ UNCHANGED calls
         ELSE /\ collected' = Finisher(container)
              /\ calls' = [calls EXCEPT !.finisher = @ + 1]
    /\ collectPc' = "returned"
    /\ UNCHANGED <<swVars, factory, forestVars, collector, input, isParallel, isOrdered, exactSize,
                   strategy, opRes, sinks, container>>

NextCollect ==
    \/ CollectConcurrent
    \/ CollectReduce
    \/ \E i \in 1 .. Len(sinks) : Begin(i)
    \/ \E i \in 1 .. Len(sinks) : Accept(i)
    \/ \E i \in 1 .. Len(sinks) : AcceptConcurrent(i)
    \/ \E i \in 1 .. Len(sinks) : Combine(i)
    \/ Evaluated
    \/ Finish

SpecCollect == InitCollect /\ [][NextCollect]_vars

\* ------------------------------------------------------------------------
\* Properties of the task forest
\* ------------------------------------------------------------------------
\* the tasks whose fork loop is over: their range is the one their leaf loop
\* runs over
PastFork(t) == pc[t] \notin {"new", "forked", "fork"}

AllForked == \A t \in Tasks : PastFork(t)

\* the indices a task's leaf loop runs over (0-based)
LeafRange(t) == {i \in 0 .. Len(arr) - 1 : pos[t] <= i /\ i < pos[t] + size[t]}

RECURSIVE SumSizes(_)
SumSizes(ts) == IF ts = {} THEN 0
                ELSE LET t == CHOOSE x \in ts : TRUE IN size[t] + SumSizes(ts \ {t})

RECURSIVE Ancestors(_)
Ancestors(t) == IF parent[t] = Null THEN {} ELSE {parent[t]} \cup Ancestors(parent[t])

\* no step of the forest is possible any more
Quiescent == callerPc # "start" /\ Running = {} /\ \A t \in Tasks : pc[t] # "forked"

\* C1: the result the root holds once the whole forest has completed, and the
\* result the caller gets, equal the result of the sequential loop over the
\* whole array.
C1_ParallelEqualsSequential ==
    /\ rootDone => res[Root] = SequentialLoop(arr)
    /\ callerPc = "returned" => result = SequentialLoop(arr)

\* C2: once every fork has been performed the leaf ranges partition [0, N):
\* their lengths sum to N, no two overlap and no index is left out.
C2_LeafRangesPartition ==
    AllForked =>
        /\ SumSizes(Tasks) = Len(arr)
        /\ \A t, u \in Tasks : t # u => LeafRange(t) \cap LeafRange(u) = {}
        /\ UNION {LeafRange(t) : t \in Tasks} = 0 .. Len(arr) - 1

\* C3: onCompletion of a task runs at most once, runs exactly once when the
\* forest has completed, runs only when the task's pending count is 0, and no
\* two threads are ever inside (or about to enter) onCompletion of one task.
C3_MergeExactlyOnce ==
    \A t \in Tasks :
        /\ Len(onCompletionBy[t]) <= 1
        /\ rootDone => Len(onCompletionBy[t]) = 1
        /\ Len(onCompletionBy[t]) = 1 => pending[t] = 0 /\ t \in completed
        /\ Cardinality({u \in Tasks : pc[u] = "onCompletion" /\ a[u] = t})
             + Len(onCompletionBy[t]) <= 1
        /\ \A u \in Tasks : pc[u] = "onCompletion" /\ a[u] = t => pending[t] = 0

\* two sibling threads race on the pending count of one completer, having
\* read the same value, in a forest where a merge has already run
C3_Witness ==
    /\ \E t, u \in Tasks :
          t # u /\ pc[t] = "cas" /\ pc[u] = "cas" /\ a[t] = a[u] /\ c[t] = c[u]
    /\ completed # {}

\* C4: with fair workers and no leaf raising, the root eventually is and
\* stays completed: its pending count is 0, its onCompletion has run, no
\* thread is still at work and its result does not change any more.
C4_RootEventuallyCompleted ==
    <>[](rootDone /\ pending[Root] = 0 /\ Root \in completed /\ Running = {}
            /\ (callerPc = "returned" => result = res[Root]))

C4_Witness == rootDone /\ Len(pc) >= 4 /\ callerPc = "returned"

\* the step of a thread that runs compute() of t
TaskStep(t) == Fork(t) \/ Leaf(t) \/ TryComplete(t) \/ Cas(t) \/ OnCompletion(t)

\* C5: no thread waits for another task: the next step of every running
\* thread is enabled whatever its siblings and children do, a forked task
\* can start as soon as a worker is free, and until the root has completed
\* some step is possible, with one worker as with several.
C5_NeverBlocked ==
    /\ \A t \in Running : ENABLED TaskStep(t)
    /\ \A t \in Tasks : pc[t] = "forked" /\ Cardinality(Running) < numWorkers
                            => ENABLED Start(t)
    /\ (callerPc = "evaluating" /\ ~rootDone) =>
            \/ Running # {}
            \/ \E t \in Tasks : pc[t] = "forked"
    /\ \A t \in Tasks : pc[t] # "NullPointerException"

\* a single worker has completed a forest of four tasks
C5_Witness == numWorkers = 1 /\ rootDone /\ Len(pc) >= 4

C7_FinishOnceAfterRoot ==
    /\ finishCount <= 1
    /\ finishCount = 1 =>
          /\ rootDone
          /\ \A t \in Tasks : t \in completed /\ pc[t] = "done"
          /\ result = res[Root]

C7_Witness == finishCount = 1 /\ Len(pc) >= 4 /\ numWorkers >= 2

\* ------------------------------------------------------------------------
\* Properties of collect
\* ------------------------------------------------------------------------
\* the 1-based positions of the input that have been accepted
Accepted == {j \in 1 .. Len(input) : \E i \in 1 .. Len(sinks) :
                                          sinks[i].lo < j /\ j <= sinks[i].next}

Occurrences(es, e) == Cardinality({j \in 1 .. Len(es) : es[j] = e})

\* the containers created so far
Creations == calls.supplier + Len(calls.sizedSupplier)

Concurrent == strategy = "UnorderedConcurrentCollectorOp"

\* C8: an accumulator made by the sized supplier of a list, set or
\* string-builder collector for n elements has not grown after exactly n
\* accumulate calls.
C8_PresizedNeverGrows ==
    (collector.sized /\ InInt(exactSize)) =>
        /\ \A i \in 1 .. Len(sinks) :
              (strategy = "ReduceOps" /\ Finished(sinks[i]) /\ ~sinks[i].combined)
                  => sinks[i].state.growths = 0
        /\ (Concurrent /\ calls.accumulator = exactSize.lo) => opRes.growths = 0

\* C9: in the unordered-concurrent strategy every element that has been
\* delivered is in the shared accumulator exactly once, under every
\* interleaving of the leaves: accumulate was called once per accepted
\* position, a set holds exactly the distinct accepted elements, a list or
\* string builder holds each element as often as it was accepted; when the
\* evaluation is over, every position of the input has been accepted.
C9_EveryElementOnce ==
    Concurrent =>
        /\ calls.accumulator = Cardinality(Accepted)
        /\ opRes.kind = "set" => opRes.set = {input[j] : j \in Accepted}
        /\ opRes.kind \in {"list", "sb"} =>
              /\ Len(opRes.list) = Cardinality(Accepted)
              /\ \A e \in CElems : Occurrences(opRes.list, e)
                                      = Cardinality({j \in Accepted : input[j] = e})
        /\ collectPc \in {"evaluated", "returned"} =>
              /\ Accepted = 1 .. Len(input)
              /\ container = opRes
              /\ container.kind = "set" => container.set = {input[j] : j \in 1 .. Len(input)}

\* two leaves have fed a shared set from an input with a repeated element
C9_Witness ==
    /\ Concurrent
    /\ collectPc = "returned"
    /\ collector.kind = "set"
    /\ Len(sinks) = 2
    /\ Cardinality(container.set) < Len(input)
    /\ Cardinality(container.set) = 2

\* C10 as stated: the shared-accumulator strategy is chosen exactly when the
\* evaluation is parallel and the collector is CONCURRENT and UNORDERED.
C10_ConcurrentIffUnordered ==
    collectPc # "start" =>
        (Concurrent <=> /\ isParallel
                        /\ "CONCURRENT" \in collector.characteristics
                        /\ "UNORDERED" \in collector.characteristics)

\* C10 as amended: the shared-accumulator strategy is chosen exactly when the
\* evaluation is parallel, the collector is CONCURRENT, and the collector is
\* UNORDERED or the stream is not ordered; it creates one accumulator, the
\* leaves have none of their own and combine is never called.  In every other
\* case the reduce strategy is used: no shared accumulator, one accumulator
\* per leaf begun, and the leaves are merged by combine until one is left.
C10_StrategySelection ==
    collectPc # "start" =>
        /\ Concurrent <=> /\ isParallel
                          /\ "CONCURRENT" \in collector.characteristics
                          /\ (~isOrdered \/ "UNORDERED" \in collector.characteristics)
        /\ ~Concurrent <=> strategy = "ReduceOps"
        /\ Concurrent =>
              /\ Creations = 1
              /\ calls.combiner = 0
              /\ \A i \in 1 .. Len(sinks) : sinks[i].state = NoContainer
        /\ strategy = "ReduceOps" =>
              /\ opRes = NoContainer
              /\ Creations = Cardinality({i \in 1 .. Len(sinks) : sinks[i].begun})
                                + calls.combiner
              /\ collectPc \in {"evaluated", "returned"} =>
                    Len(sinks) = 1 /\ container = sinks[1].state

\* a CONCURRENT collector without UNORDERED has been evaluated over an
\* unordered parallel stream by two leaves
C10_Witness ==
    /\ collectPc = "returned"
    /\ Concurrent
    /\ "UNORDERED" \notin collector.characteristics
    /\ Len(sinks) = 2
    /\ Len(input) >= 2

\* C11: after creation, the sized supplier has been called exactly for the
\* known sizes and the plain supplier exactly for the unknown size: every
\* call of the sized supplier was made for a known size k, got k itself as
\* its argument and never the unknown-size marker -1; a shared accumulator
\* is made for the total element count, a leaf's accumulator for the length
\* of the leaf's range.
C11_SizedIffKnown ==
    collectPc # "start" =>
        /\ \A k \in 1 .. Len(calls.sizedSupplier) :
              /\ calls.sizedSupplier[k].size # UnknownSize
              /\ calls.sizedSupplier[k].arg # -1
              /\ Long(calls.sizedSupplier[k].arg) = calls.sizedSupplier[k].size
        /\ exactSize = UnknownSize => calls.sizedSupplier = <<>>
        /\ exactSize # UnknownSize => calls.supplier = 0
        /\ (Concurrent /\ exactSize # UnknownSize) =>
              /\ Len(calls.sizedSupplier) = 1
              /\ calls.sizedSupplier[1].size = exactSize
        /\ \A i \in 1 .. Len(sinks) :
              (strategy = "ReduceOps" /\ sinks[i].begun /\ sinks[i].next = sinks[i].lo
                  /\ ~sinks[i].combined) =>
                    /\ exactSize = UnknownSize => sinks[i].state = Supplier(collector)
                    /\ InInt(exactSize) =>
                          sinks[i].state
                              = SizedSupplier(collector, sinks[i].hi - sinks[i].lo)

\* C12: when the known size does not fit an int, the accumulator is made by
\* the plain supplier, the sized supplier is not called, and the reduction
\* goes on: no exception is thrown in place of the accumulator.
C12_OverflowFallsBackToNew ==
    (Huge /\ Creations > 0) =>
        /\ calls.sizedSupplier = <<>>
        /\ calls.supplier = Creations
        /\ collectPc # "thrown"
        /\ ~IsThrown(opRes)
        /\ \A i \in 1 .. Len(sinks) : ~IsThrown(sinks[i].state)

\* ------------------------------------------------------------------------
\* Further properties of the task forest
\* ------------------------------------------------------------------------
\* the leaves computeInitialPending works with
LeavesOf(sz, target, minSize) == Min(target, sz \div minSize)

RootLeaves == LeavesOf(Len(arr), targetLeaves, minSizePerLeaf)

Children(t) == {u \in Tasks : parent[u] = t}

StrictlyIncreasing(seq) == \A k \in 1 .. Len(seq) - 1 : seq[k] < seq[k + 1]

\* C13: for an empty array no task is forked, the leaf loop reads no element
\* and folds nothing, the root's result stays 0 and the caller gets 0.
C13_EmptyInput ==
    Len(arr) = 0 =>
        /\ Tasks = {Root}
        /\ Len(subs[Root]) = 0
        /\ pending[Root] = 0
        /\ folded[Root] = <<>>
        /\ res[Root] = 0
        /\ pc[Root] # "NullPointerException"
        /\ callerPc = "returned" => result = 0

\* the caller has got the result of the reduction of the empty array
C13_Witness ==
    /\ Len(arr) = 0
    /\ leafRuns[Root] = 1
    /\ callerPc = "returned"

\* C14: a task that has merged holds first the result of its own front
\* range, then the results of its children in the order of increasing range
\* start; the indices behind every merged result, the root's included, are in
\* increasing order, as in a sequential left-to-right pass.
C14_MergeInRangeOrder ==
    \A t \in completed :
        /\ \A k \in 1 .. Len(subs[t]) - 1 : pos[subs[t][k]] < pos[subs[t][k + 1]]
        /\ Len(subs[t]) > 0 => pos[t] + size[t] <= pos[subs[t][1]]
        /\ folded[t] = ConcatSubs(LeafIndices(arr, pos[t], size[t]), subs[t], folded)
        /\ StrictlyIncreasing(folded[t])

\* the root has merged three children, one of which had merged a child of
\* its own
C14_Witness ==
    /\ rootDone
    /\ Len(subs[Root]) >= 2
    /\ \E t \in Children(Root) : Len(subs[t]) >= 1 /\ t \in completed
    /\ Len(folded[Root]) >= 4

\* C15: with leaves = min(TARGET_LEAVES, N / MIN_SIZE_PER_LEAF) at most 1 the
\* root starts with pending count 0, no task is forked, and the root's leaf
\* loop runs over the whole of [0, N).
C15_FewLeavesNoFork ==
    RootLeaves <= 1 =>
        /\ Len(subs[Root]) = 0
        /\ pending[Root] = 0
        /\ Tasks = {Root}
        /\ pos[Root] = 0 /\ size[Root] = Len(arr)
        /\ leafRuns[Root] = 1 => folded[Root] = [k \in 1 .. Len(arr) |-> k - 1]
        /\ rootDone => leafRuns[Root] = 1

\* an array of at least two elements has been reduced by the root alone
C15_Witness ==
    /\ RootLeaves = 1
    /\ Len(arr) >= 2
    /\ rootDone
    /\ callerPc = "returned"

RECURSIVE Pow2(_)
Pow2(k) == IF k = 0 THEN 1 ELSE 2 * Pow2(k - 1)

\* floor(log2(x)) for 1 <= x <= Integer.MAX_VALUE
FloorLog2(x) == CHOOSE k \in 0 .. 30 : x \div Pow2(k) = 1

\* leaf counts across the int range: the powers of two and their neighbours
LeafSamples ==
    {1, 2147483647} \cup UNION {{Pow2(k) - 1, Pow2(k), Pow2(k) + 1} : k \in 1 .. 30}

\* C16: for leaves >= 1 computeInitialPending returns floor(log2(leaves)),
\* over the int range (looked at when the root is constructed) and for the
\* root of the forest; the root never has more children than that, and has
\* exactly that many once its fork loop is over.
C16_PendingIsFloorLog2 ==
    /\ callerPc = "start" =>
          \A x \in LeafSamples : computeInitialPending(x, x, 1) = FloorLog2(x)
    /\ RootLeaves >= 1 =>
          /\ Len(subs[Root]) = FloorLog2(RootLeaves)
          /\ Cardinality(Children(Root)) <= FloorLog2(RootLeaves)
          /\ PastFork(Root) => Cardinality(Children(Root)) = FloorLog2(RootLeaves)

\* a root with three leaves has forked its one child and completed
C16_Witness ==
    /\ RootLeaves = 3
    /\ Cardinality(Children(Root)) = 1
    /\ rootDone

\* C17: when the root forks at all, the range every task's leaf loop runs
\* over lies in the array and holds at least MIN_SIZE_PER_LEAF elements.
C17_LeavesAtLeastMinSize ==
    Len(subs[Root]) >= 1 =>
        \A t \in Tasks :
            PastFork(t) =>
                /\ size[t] >= minSizePerLeaf
                /\ Cardinality(LeafRange(t)) = size[t]
                /\ leafRuns[t] = 1 /\ t \notin completed =>
                      Len(folded[t]) >= minSizePerLeaf

\* a forest with MIN_SIZE_PER_LEAF of 2 has forked and run all its leaf loops
C17_Witness ==
    /\ minSizePerLeaf >= 2
    /\ Len(pc) >= 2
    /\ \A t \in Tasks : leafRuns[t] = 1
    /\ rootDone

\* the pending count task t was created with
InitialPending(t) == Len(subs[t])

\* the thread of t has run, or raised in, its leaf loop
PastLeaf(t) == pc[t] \in {"tryComplete", "cas", "onCompletion", "done", "NullPointerException"}

\* C18: a collector built without a sized supplier gets, from its sized
\* supplier, exactly what its plain supplier gives, whatever the argument: a
\* fresh default container, and never an exception for a negative argument.
C18_UnsizedIgnoresSize ==
    ~collector.sized =>
        /\ collectPc # "thrown"
        /\ ~IsThrown(opRes)
        /\ (Concurrent /\ calls.accumulator = 0) => opRes = Supplier(collector)
        /\ \A i \in 1 .. Len(sinks) :
              (strategy = "ReduceOps" /\ sinks[i].begun /\ sinks[i].next = sinks[i].lo
                  /\ ~sinks[i].combined) => sinks[i].state = Supplier(collector)

\* the sized supplier of an unsized collector has been called for a size of
\* at least 2 or for a negative argument
C18_Witness ==
    /\ ~collector.sized
    /\ collectPc = "evaluating"
    /\ \E k \in 1 .. Len(calls.sizedSupplier) :
          calls.sizedSupplier[k].arg >= 2 \/ calls.sizedSupplier[k].arg < 0
    /\ \E i \in 1 .. Len(sinks) :
          sinks[i].begun /\ sinks[i].next = sinks[i].lo /\ sinks[i].state.kind = "set"

\* C19: a task created with pending count p0 forks p0 children, with pending
\* counts p0 - 1, p0 - 2, ..., 0 in this order; a task created with 0 forks
\* none; every task runs its leaf loop once, after its last fork and before
\* its tryComplete.
C19_ForkCountdownThenLeaf ==
    \A t \in Tasks :
        /\ {InitialPending(u) : u \in Children(t)}
              = (InitialPending(t) - Cardinality(Children(t))) .. (InitialPending(t) - 1)
        /\ \A u, v \in Children(t) : u < v => InitialPending(u) > InitialPending(v)
        /\ PastFork(t) => Cardinality(Children(t)) = InitialPending(t)
        /\ pc[t] = "fork" => Cardinality(Children(t)) = InitialPending(t) - 1 - p[t]
        /\ leafRuns[t] = (IF PastLeaf(t) THEN 1 ELSE 0)
        /\ leafRuns[t] = 1 => Cardinality(Children(t)) = InitialPending(t)
        /\ rootDone => leafRuns[t] = 1

\* a task created with pending count 2 has forked its two children and run
\* its leaf loop, and so has its first child
C19_Witness ==
    \E t \in Tasks :
        /\ InitialPending(t) = 2
        /\ leafRuns[t] = 1
        /\ \E u \in Children(t) : InitialPending(u) = 1 /\ leafRuns[u] = 1
        /\ \E u \in Children(t) : InitialPending(u) = 0 /\ leafRuns[u] = 0

\* C20: when a thread is about to run onCompletion of a task, the task's leaf
\* loop is over, every slot of its subs holds a child, every child has
\* completed, and no other thread is still at work on the task or below it:
\* the results the merge reads are final.
C20_MergeAfterChildren ==
    \A u \in Tasks :
        pc[u] = "onCompletion" =>
            LET at == a[u]
            IN  /\ leafRuns[at] = 1
                /\ PastLeaf(at)
                /\ \A k \in 1 .. Len(subs[at]) :
                      /\ subs[at][k] # Null
                      /\ subs[at][k] \in completed
                      /\ leafRuns[subs[at][k]] = 1
                /\ \A w \in Tasks \ {u} :
                      (w = at \/ at \in Ancestors(w)) => pc[w] = "done"

\* a thread that came up from a child is about to merge a task with two
\* children
C20_Witness ==
    \E u \in Tasks :
        /\ pc[u] = "onCompletion"
        /\ a[u] # u
        /\ Len(subs[a[u]]) >= 2

\* C21: the pending count of every task lies between 0 and the number of
\* children the task was created to fork, it is that number less the
\* decrements made so far, and a step changes it by a decrement of 1 or not
\* at all.
C21_PendingInRange ==
    /\ [](\A t \in Tasks :
             /\ 0 <= pending[t] /\ pending[t] <= Len(subs[t])
             /\ pending[t] = Len(subs[t]) - Len(decBy[t]))
    /\ [][\A t \in Tasks : pending'[t] = pending[t] \/ pending'[t] = pending[t] - 1]_vars

\* the pending count of a task with two children has come down to 0
C21_Witness ==
    \E t \in Tasks : Len(subs[t]) = 2 /\ pending[t] = 0 /\ Len(decBy[t]) = 2

\* the direct children of t that have not completed, those not yet forked
\* included
UncompletedChildren(t) == Len(subs[t]) - Cardinality(Children(t) \cap completed)

\* the arrivals still due at t: that of t's own compute(), until its
\* tryComplete has acted on t, and that of every child, until the thread
\* that completed the child has acted on t
ArrivalsDue(t) ==
    (IF \/ pc[t] \in {"new", "forked", "fork", "leaf"}
        \/ (a[t] = t /\ pc[t] \in {"tryComplete", "cas"})
       THEN 1 ELSE 0)
      + UncompletedChildren(t)
      + Cardinality({w \in Tasks \ {t} : a[w] = t /\ pc[w] \in {"tryComplete", "cas"}})

Caller == 0

\* the threads whose next step reads or writes res[t]: the thread of t in
\* its leaf loop, a thread about to run onCompletion of t (writes it) or of
\* t's completer (reads it), and the caller about to take the root's result
Accessors(t) ==
    {u \in Tasks :
        \/ u = t /\ pc[u] = "leaf"
        \/ /\ pc[u] = "onCompletion"
           /\ (a[u] = t \/ \E k \in 1 .. Len(subs[a[u]]) : subs[a[u]][k] = t)}
      \cup (IF t = Root /\ callerPc = "evaluating" /\ rootDone THEN {Caller} ELSE {})

\* C23: at no time are two threads about to access the result of one task;
\* a thread about to read it in the merge of the task's completer finds the
\* task completed; and a step changes it only as the task's own leaf loop,
\* or as the one run of onCompletion of the task, after the leaf loop.
C23_ResultPrivate ==
    /\ [](\A t \in Tasks :
             /\ Cardinality(Accessors(t)) <= 1
             /\ \A u \in Tasks :
                   (pc[u] = "onCompletion" /\ \E k \in 1 .. Len(subs[a[u]]) : subs[a[u]][k] = t)
                       => t \in completed /\ PastLeaf(t))
    /\ [][\A t \in Tasks :
             (res'[t] # res[t] \/ folded'[t] # folded[t]) =>
                 \/ pc[t] = "leaf" /\ pc'[t] = "tryComplete" /\ t \notin completed
                 \/ /\ PastLeaf(t)
                    /\ onCompletionBy[t] = <<>>
                    /\ \E u \in Tasks : /\ pc[u] = "onCompletion" /\ a[u] = t
                                        /\ onCompletionBy'[t] = <<u>>]_vars

\* a thread is about to merge a task with a child while another thread is in
\* its leaf loop
C23_Witness ==
    \E u, w \in Tasks :
        /\ u # w
        /\ pc[u] = "onCompletion"
        /\ Len(subs[a[u]]) >= 1
        /\ pc[w] = "leaf"

\* the state of a task: 0 Unforked, 1 Running, 2 Completed
PhaseOf(where, merged) ==
    IF merged THEN 2 ELSE IF where \in {"new", "forked"} THEN 0 ELSE 1

\* tasks move forward only, one state at a time
ForwardOnly ==
    \A t \in Tasks :
        LET before == PhaseOf(pc[t], t \in completed)
            after  == PhaseOf(pc'[t], t \in completed')
        IN  after = before \/ after = before + 1

\* the decrements of the parent's pending count made for the completion of u
DecrementsFor(u) == Occurrences(decBy[parent[u]], u)

\* C24 as stated: tasks move forward only through Unforked, Running,
\* Completed; the completion of a task decrements its parent's pending count
\* at most once, and exactly once, when all is over, if it has a parent.
C24_CompletionDecrementsOnce ==
    /\ [][ForwardOnly]_vars
    /\ [](\A u \in Tasks \ {Root} :
             /\ DecrementsFor(u) <= 1
             /\ DecrementsFor(u) = 1 => u \in completed
             /\ rootDone => DecrementsFor(u) = 1)

\* C24 as amended: tasks move forward only through Unforked, Running,
\* Completed; the root has no completer to decrement; the completion of any
\* other task decrements its parent's pending count at most once and only
\* after the task has completed: once all is over, exactly once unless the
\* thread that completed the task found the parent's count at 0, in which
\* case it made no decrement and ran the parent's onCompletion itself.
C24_ForwardAndAtMostOneDecrement ==
    /\ [][ForwardOnly]_vars
    /\ [](/\ parent[Root] = Null
          /\ \A u \in Tasks \ {Root} :
                /\ DecrementsFor(u) <= 1
                /\ DecrementsFor(u) = 1 => u \in completed
                /\ rootDone =>
                      DecrementsFor(u)
                          = (IF onCompletionBy[parent[u]] = onCompletionBy[u] THEN 0 ELSE 1))

\* all is over in a forest where the completion of one child decremented
\* its parent's count and that of another did not
C24_Witness ==
    /\ rootDone
    /\ \E u, v \in Tasks \ {Root} :
          /\ parent[u] = parent[v]
          /\ DecrementsFor(u) = 1
          /\ DecrementsFor(v) = 0

\* C25: the range of every task lies in the array at all times, before and
\* after each of its forks, and every index a leaf loop has read is an index
\* of the array.
C25_RangesInBounds ==
    \A t \in Tasks :
        /\ 0 <= pos[t]
        /\ 0 <= size[t]
        /\ pos[t] + size[t] <= Len(arr)
        /\ \A k \in 1 .. Len(folded[t]) : 0 <= folded[t][k] /\ folded[t][k] < Len(arr)

\* a forest of four tasks has run its leaf loops, one of them up to the end
\* of the array
C25_Witness ==
    /\ Len(pc) >= 4
    /\ \A t \in Tasks : leafRuns[t] = 1
    /\ \E t \in Tasks \ {Root} : pos[t] + size[t] = Len(arr) /\ Len(folded[t]) >= 1

\* the place of child u among the children of t, in fork order: 1 for the
\* child forked first
ForkRank(t, u) == Cardinality({v \in Children(t) : v <= u})

\* C26 as stated: the k-th child a task forks is stored at index k of its
\* subs (k = 0 is the element 1 of the sequence).
C26_FilledLeftToRight ==
    \A t \in Tasks : \A u \in Children(t) : subs[t][ForkRank(t, u)] = u

\* C26 as amended: the length of a task's subs is the pending count the task
\* was created with and never changes; subs is filled from its last slot
\* down: the child forked k-th is in the k-th slot from the end, the slots
\* below those of the children forked so far are empty, and once the fork
\* loop is over the children stand in subs in the reverse of fork order.
C26_FilledRightToLeft ==
    /\ [](\A t \in Tasks :
             /\ Len(subs[t]) = pending[t] + Len(decBy[t])
             /\ \A u \in Children(t) : subs[t][Len(subs[t]) + 1 - ForkRank(t, u)] = u
             /\ \A k \in 1 .. Len(subs[t]) - Cardinality(Children(t)) : subs[t][k] = Null)
    /\ [][/\ \A t \in Tasks : Len(subs'[t]) = Len(subs[t])
          /\ \A n \in 1 .. Len(pc') : n \notin Tasks => Len(subs'[n]) = pending'[n]]_vars

\* a task has forked two children: the first is in the last slot
C26_Witness ==
    \E t \in Tasks :
        /\ Len(subs[t]) = 2
        /\ Cardinality(Children(t)) = 2
        /\ subs[t][2] < subs[t][1]

\* the tasks of the subtree of t, t included
Subtree(t) == {w \in Tasks : w = t \/ t \in Ancestors(w)}

\* C27: a leaf that raised disables no other task: every running thread can
\* take its next step and every forked task can start when a worker is free;
\* when nothing can move any more, every task that did not raise has run its
\* leaf loop and called tryComplete, and every task with no raising task in
\* its subtree has completed; after a leaf has raised the root never
\* completes and the caller is handed no result.
C27_ErrorCancelsNothing ==
    /\ \A t \in Running : ENABLED (TaskStep(t) \/ LeafThrow(t))
    /\ \A t \in Tasks : pc[t] = "forked" /\ Cardinality(Running) < numWorkers
                            => ENABLED Start(t)
    /\ (Quiescent /\ raised # {}) =>
          \A t \in Tasks \ raised :
              /\ leafRuns[t] = 1
              /\ pc[t] = "done"
              /\ a[t] # Null
              /\ Subtree(t) \cap raised = {} => t \in completed
    /\ raised # {} =>
          /\ ~rootDone
          /\ callerPc # "returned"
          /\ finishCount = 0

\* a leaf has raised and nothing can move any more; a sibling of the task
\* that raised has completed with its own child
C27_Witness ==
    /\ Quiescent
    /\ \E r \in raised, t \in Tasks \ raised :
          /\ parent[r] = parent[t]
          /\ t \in completed
          /\ Len(subs[t]) >= 1

\* C28: the step that runs the leaf loop of t reads only indices of t's own
\* range and changes only t's own result, to the fold of that range into
\* it: the array, every range, pending count and subs, and the result of
\* every other task stay as they were.
C28_LeafLoopFrame ==
    [][\A t \in Tasks :
          (pc[t] = "leaf" /\ pc'[t] # "leaf") =>
              /\ arr' = arr
              /\ pos' = pos /\ size' = size
              /\ pending' = pending /\ subs' = subs
              /\ \A u \in Tasks \ {t} : res'[u] = res[u] /\ folded'[u] = folded[u]
              /\ \A k \in 1 .. Len(folded'[t]) :
                    k > Len(folded[t]) => folded'[t][k] \in LeafRange(t)
              /\ res'[t] = Fold(res[t], arr, pos[t], pos[t] + size[t])]_vars

\* a task other than the root has folded two elements into a result that is
\* not 0, while another task has not run its leaf loop yet
C28_Witness ==
    \E t \in Tasks \ {Root}, u \in Tasks :
        /\ leafRuns[t] = 1
        /\ Len(folded[t]) >= 2
        /\ res[t] # 0
        /\ t \notin completed
        /\ leafRuns[u] = 0

\* the elements of the input, as a set
InputSet == {input[j] : j \in 1 .. Len(input)}

\* what combine made of left and right is right for the kind of container:
\* for a set the union of both, and the same set with the operands changed
\* over, grown from the operand with more elements; for a list or string
\* builder the elements of left followed by those of right
CombinedRight(left, right, made) ==
    IF left.kind = "set"
      THEN LET larger == IF Cardinality(left.set) < Cardinality(right.set)
                           THEN right ELSE left
           IN  /\ made.set = left.set \cup right.set
               /\ made.set = Combiner(right, left).set
               /\ made.dflt = larger.dflt
               /\ made.cap >= larger.cap
               /\ made.growths >= larger.growths
      ELSE made.list = left.list \o right.list

\* C29: every call of combine on two neighbouring leaves returns the union
\* of both sets, grown from the larger operand and the same whichever
\* operand is left, or the left list followed by the right list; and the
\* container a reduce evaluation ends with holds exactly the elements of the
\* input, a list in the order of the input.
C29_CombineLosesNothing ==
    /\ [][calls'.combiner = calls.combiner + 1 =>
             \E i \in 1 .. Len(sinks) - 1 :
                 /\ Len(sinks') = Len(sinks) - 1
                 /\ sinks'[i].combined
                 /\ CombinedRight(sinks[i].state, sinks[i + 1].state, sinks'[i].state)]_vars
    /\ []((strategy = "ReduceOps" /\ collectPc \in {"evaluated", "returned"}) =>
             IF container.kind = "set" THEN container.set = InputSet
             ELSE container.list = input)

\* two leaves of a set collector have been combined into a set of two
\* elements, from an input of three elements
C29_Witness ==
    /\ strategy = "ReduceOps"
    /\ collector.kind = "set"
    /\ calls.combiner = 1
    /\ Len(input) = 3
    /\ collectPc = "evaluated"
    /\ Cardinality(container.set) = 2

\* C30: a sequential pipeline is never given to the unordered-concurrent
\* operation, whose evaluateSequential is therefore never called: it is
\* reduced by one sink, with no shared accumulator and no combine, and its
\* one accumulator comes from the plain supplier when the size is unknown
\* and from the sized supplier, called for the size of the pipeline, when it
\* is known.
C30_SequentialUsesReduce ==
    /\ collectPc # "IllegalStateException"
    /\ (~isParallel /\ collectPc # "start") =>
          /\ strategy = "ReduceOps"
          /\ opRes = NoContainer
          /\ Len(sinks) = 1
          /\ calls.combiner = 0
          /\ Creations = (IF sinks[1].begun THEN 1 ELSE 0)
          /\ sinks[1].begun =>
                IF exactSize = UnknownSize
                  THEN /\ calls.supplier = 1
                       /\ sinks[1].next = sinks[1].lo => sinks[1].state = Supplier(collector)
                  ELSE /\ Len(calls.sizedSupplier) = 1
                       /\ calls.sizedSupplier[1].size = exactSize

\* a sequential pipeline of known size has been collected by a sized
\* CONCURRENT and UNORDERED collector
C30_Witness ==
    /\ ~isParallel
    /\ {"CONCURRENT", "UNORDERED"} \subseteq collector.characteristics
    /\ collector.sized
    /\ InInt(exactSize)
    /\ Len(input) >= 2
    /\ collectPc = "returned"

\* ------------------------------------------------------------------------
\* the width of the accumulator
\* ------------------------------------------------------------------------

\* the largest length of an int[]: arr.length is an int
MaxArrayLength == 2147483647

\* the largest magnitude of fnv(e) % 5
MaxAddend == 4

Abs(x) == IF x < 0 THEN -x ELSE x

\* floor(count * addend / 2^16), computed on 16-bit limbs of count
ProductHigh(count, addend) ==
    addend * (count \div 65536) + (addend * (count % 65536)) \div 65536

\* count addends of magnitude addend sum to less than 2^47, well inside a
\* long:  floor(count * addend / 2^16) < 2^31
FitsLong(count, addend) == ProductHigh(count, addend) <= 2147483647

\* the value of res in task t after k rounds of its leaf loop
LeafPartial(t, k) == LeafLoop(0, arr, pos[t], Min(k, size[t]))

\* the number of elements behind the value of res in task t after j rounds
\* of the loop of onCompletion
RECURSIVE MergedCount(_, _)
MergedCount(t, j) ==
    IF j = 0 THEN Len(LeafIndices(arr, pos[t], size[t]))
    ELSE MergedCount(t, j - 1) + Len(folded[subs[t][j]])

C32_TaskCount ==
    /\ Len(pc) <= Pow2(InitialPending(Root))
    /\ Pow2(InitialPending(Root)) <= Max(1, RootLeaves)
    /\ \A t \in Tasks :
          /\ Cardinality(Subtree(t)) <= Pow2(InitialPending(t))
          /\ leafRuns[t] <= 1
          /\ PastLeaf(t) => leafRuns[t] = 1
    /\ AllForked =>
          /\ Len(pc) = Pow2(InitialPending(Root))
          /\ \A t \in Tasks : Cardinality(Subtree(t)) = Pow2(InitialPending(t))
    /\ rootDone =>
          /\ AllForked
          /\ \A t \in Tasks : leafRuns[t] = 1

\* a root created with pending count 2 has completed: four tasks exist and
\* each has run its leaf loop
C32_Witness ==
    /\ rootDone
    /\ InitialPending(Root) = 2
    /\ Len(pc) = 4
    /\ \A t \in Tasks : leafRuns[t] = 1

\* the array indices some leaf loop has read
Visited == UNION {{folded[t][k] : k \in 1 .. Len(folded[t])} : t \in Tasks}

\* C33: once its fork loop is over, every task holds a range of length
\* N \div 2^p, for p the pending count the root was created with, whatever
\* the count the task itself was created with or its depth, and its leaf
\* loop reads exactly that range; the leaf loops of a completed forest have
\* together read 2^p * (N \div 2^p) distinct indices.
C33_EqualLeafRanges ==
    LET width == Len(arr) \div Pow2(InitialPending(Root))
    IN  /\ \A t \in Tasks :
              /\ PastFork(t) => size[t] = width
              /\ PastLeaf(t) /\ onCompletionBy[t] = <<>> =>
                    /\ Len(folded[t]) = width
                    /\ {folded[t][k] : k \in 1 .. Len(folded[t])} = LeafRange(t)
                    /\ Cardinality(LeafRange(t)) = width
        /\ Cardinality(Visited) <= Pow2(InitialPending(Root)) * width
        /\ rootDone =>
              Cardinality(Visited) = Pow2(InitialPending(Root)) * width

\* a forest of four tasks over five elements has completed: tasks created
\* with pending counts 2, 1 and 0, at depths 0, 1 and 2, each read a range of
\* length 1
C33_Witness ==
    /\ rootDone
    /\ Len(arr) = 5
    /\ InitialPending(Root) = 2
    /\ \E t, u \in Tasks :
          /\ InitialPending(t) = 1
          /\ InitialPending(u) = 0
          /\ parent[u] = t
          /\ size[t] = 1
          /\ size[u] = 1
    /\ Cardinality(Visited) = 4

\* the sum of the leaf partials of the tasks ts
RECURSIVE SumLeafPartials(_)
SumLeafPartials(ts) ==
    IF ts = {} THEN 0
    ELSE LET t == CHOOSE x \in ts : TRUE
         IN  LeafLoop(0, arr, pos[t], size[t]) + SumLeafPartials(ts \ {t})

\* the slots of subs arrays that hold task t
SlotsOf(t) == {<<u, k>> \in Tasks \X (1 .. MaxN) : k <= Len(subs[u]) /\ subs[u][k] = t}

\* C34: every task but the root sits in exactly one slot of one subs array,
\* that of its completer, the merge of a task runs once at most, and the
\* result of a completed task is the sum of the leaf partials of the tasks of
\* its subtree, each counted once: the indices behind it are those of the
\* leaf ranges of the subtree, none twice.  So is the root's result, and the
\* value the caller gets, once the root has completed.
C34_EveryPartialOnce ==
    /\ \A t \in Tasks :
          /\ SlotsOf(t) \subseteq {<<parent[t], k>> : k \in 1 .. MaxN}
          /\ Cardinality(SlotsOf(t)) <= 1
          /\ (t # Root /\ PastFork(parent[t])) => Cardinality(SlotsOf(t)) = 1
          /\ Len(onCompletionBy[t]) <= 1
          /\ t \in completed =>
                /\ res[t] = SumLeafPartials(Subtree(t))
                /\ Len(folded[t]) = SumSizes(Subtree(t))
                /\ {folded[t][k] : k \in 1 .. Len(folded[t])}
                      = UNION {LeafRange(w) : w \in Subtree(t)}
                /\ \A j, k \in 1 .. Len(folded[t]) :
                      folded[t][j] = folded[t][k] => j = k
    /\ rootDone =>
          /\ Root \in completed
          /\ Subtree(Root) = Tasks
          /\ \A t \in Tasks : Len(onCompletionBy[t]) = 1
    /\ callerPc = "returned" => result = SumLeafPartials(Tasks)

\* a forest of four tasks over elements that all count has completed after
\* two threads raced on one pending count, and the caller has the result
C34_Witness ==
    /\ rootDone
    /\ callerPc = "returned"
    /\ Len(pc) = 4
    /\ \A i \in 1 .. Len(arr) : arr[i] < 150
    /\ result # 0
    /\ \E t \in Tasks : Len(decBy[t]) >= 1 /\ onCompletionBy[t] # <<t>>

\* ------------------------------------------------------------------------
\* passgen/ServiceWorker.js
\* ------------------------------------------------------------------------
MaxEvents == 2       \* fetch events dispatched to the worker

\* const store = 'passgen-store-v1'
store == "passgen-store-v1"

\* the URLs the install handler hands to cache.addAll
Precache == {"./", "./index.html", "./icon.png", "./10k.txt", "./passgen.js"}

\* the URLs fetch events ask for: one that install has cached, one it has not
RequestUrls == {"./10k.txt", "./other"}
Urls == Precache \cup RequestUrls
Requests == [url : RequestUrls, method : {"GET", "POST"}]

\* caches left behind by earlier versions of the worker
OldNames == {"passgen-store-v0", "passgen-store"}

Response(status, type, body) ==
    [status |-> status, type |-> type, body |-> body, clone |-> FALSE]

\* undefined: no response
NoResponse == [status |-> 0, type |-> "undefined", body |-> "none", clone |-> FALSE]

\* resp.clone(): another Response object with the same status, type and body
Clone(resp) == [resp EXCEPT !.clone = TRUE]

\* what fetch(e.request) can resolve with
NetworkResponses ==
    {Response(200, "basic", "network"), Response(404, "basic", "network"),
     Response(200, "cors", "network")}

NoEntries == [u \in Urls |-> NoResponse]

\* the CacheStorage states the worker can be installed into: caches of
\* earlier versions, in any order of creation, with or without a store that
\* an earlier installation of this version has filled
InitialCaches ==
    LET old(n) == [name |-> n, entries |->
                      [NoEntries EXCEPT !["./10k.txt"] = Response(200, "basic", n)]]
        all == {old(n) : n \in OldNames \cup {store}}
    IN  {cs \in UNION {[1 .. k -> all] : k \in 0 .. Cardinality(all)} :
            \A i, j \in 1 .. Len(cs) : cs[i].name = cs[j].name => i = j}

CacheNames(cs) == {cs[i].name : i \in 1 .. Len(cs)}

\* caches.keys(): the names in creation order
CachesKeys(cs) == [i \in 1 .. Len(cs) |-> cs[i].name]

\* caches.open(name): creates the cache when there is none of that name
CachesOpen(cs, name) ==
    IF name \in CacheNames(cs) THEN cs
    ELSE Append(cs, [name |-> name, entries |-> NoEntries])

\* caches.delete(key)
CachesDelete(cs, key) == SelectSeq(cs, LAMBDA ch : ch.name # key)

\* Cache.put rejects with a TypeError for a request whose method is not GET
PutRejects(request) == request.method # "GET"

\* cache.put(request, resp) on the cache of that name
CachePut(cs, name, url, resp) ==
    [i \in 1 .. Len(cs) |->
        IF cs[i].name = name THEN [cs[i] EXCEPT !.entries[url] = resp] ELSE cs[i]]

\* caches.match(request): the entry for the request in the first cache, in
\* creation order, that has one; undefined if none has, and for every
\* request whose method is not GET
RECURSIVE CachesMatch(_, _)
CachesMatch(cs, request) ==
    IF cs = <<>> \/ request.method # "GET" THEN NoResponse
    ELSE IF Head(cs).entries[request.url] # NoResponse
           THEN Head(cs).entries[request.url]
           ELSE CachesMatch(Tail(cs), request)

\* the map callback of the activate handler that deletes every key
ToDelete_All(keys) == {keys[i] : i \in 1 .. Len(keys)}

\* the keys for which the map callback of the activate handler calls
\* caches.delete:  if (key !== store) return caches.delete(key)
ToDelete(keys) == {keys[i] : i \in {j \in 1 .. Len(keys) : keys[j] # store}}

\* !resp || resp.status !== 200 || resp.type !== 'basic'
NotCacheable(resp) == resp = NoResponse \/ resp.status # 200 \/ resp.type # "basic"

InitSW ==
    /\ NoForest
    /\ NoCollect
    /\ workerState = "parsed"
    /\ caches \in InitialCaches
    /\ activatePc = "idle"
    /\ keyList = <<>>
    /\ deleting = {}
    /\ events = <<>>

\* the install event: e.waitUntil(caches.open(store).then(...)), up to the
\* point where caches.open has resolved
InstallOpen ==
    /\ workerState = "parsed"
    /\ caches' = CachesOpen(caches, store)
    /\ workerState' = "installing"
    /\ UNCHANGED <<forestVars, collVars, activatePc, keyList, deleting, events>>

\* cache.addAll([...]): every URL is fetched and, if every response is ok,
\* all are stored; otherwise nothing is stored, the promise given to
\* waitUntil rejects and the worker is discarded
InstallAddAll ==
    /\ workerState = "installing"
    /\ \E ok \in BOOLEAN :
          IF ok
            THEN /\ caches' = [i \in 1 .. Len(caches) |->
                                 IF caches[i].name = store
                                   THEN [caches[i] EXCEPT !.entries =
                                           [u \in Urls |->
                                              IF u \in Precache
                                                THEN Response(200, "basic", "installed")
                                                ELSE @[u]]]
                                   ELSE caches[i]]
                 /\ workerState' = "installed"
            ELSE /\ workerState' = "redundant"
                 /\ UNCHANGED caches
    /\ UNCHANGED <<forestVars, collVars, activatePc, keyList, deleting, events>>

\* the activate event: the handler calls caches.keys() and hands the promise
\* chain to e.waitUntil
Activate ==
    /\ workerState = "installed"
    /\ workerState' = "activating"
    /\ activatePc' = "keys"
    /\ UNCHANGED <<forestVars, collVars, caches, keyList, deleting, events>>

\* caches.keys() resolves: the callback maps the keyList, which calls
\* caches.delete for the keys chosen, and gives the promises to Promise.all
ActivateKeys ==
    /\ activatePc = "keys"
    /\ keyList' = CachesKeys(caches)
    /\ deleting' = ToDelete(keyList')
    /\ activatePc' = "all"
    /\ UNCHANGED <<forestVars, collVars, workerState, caches, events>>

\* one caches.delete(key) resolves
Deleted(key) ==
    /\ activatePc = "all"
    /\ key \in deleting
    /\ caches' = CachesDelete(caches, key)
    /\ deleting' = deleting \ {key}
    /\ UNCHANGED <<forestVars, collVars, workerState, activatePc, keyList, events>>

\* Promise.all resolves, and with it the promise given to waitUntil
ActivateResolved ==
    /\ activatePc = "all"
    /\ deleting = {}
    /\ activatePc' = "resolved"
    /\ workerState' = "activated"
    /\ UNCHANGED <<forestVars, collVars, caches, keyList, deleting, events>>

\* a fetch event: the handler calls fetch(e.request) and hands the promise
\* chain to e.respondWith
Fetch(request) ==
    /\ workerState = "activated"
    /\ Len(events) < MaxEvents
    /\ events' = Append(events, [request |-> request, pc |-> "fetch",
                                 network |-> "pending", resp |-> NoResponse,
                                 put |-> FALSE, answer |-> NoResponse])
    /\ UNCHANGED <<forestVars, collVars, workerState, caches, activatePc, keyList, deleting>>

\* fetch resolves with resp and the then callback runs: it calls
\* caches.match for a response it will not cache, caches.open for one it will
Then(i, resp) ==
    /\ events[i].pc = "fetch"
    /\ events' = [events EXCEPT ![i].network = "response",
                                ![i].resp = resp,
                                ![i].pc = IF NotCacheable(resp) THEN "match" ELSE "open"]
    /\ UNCHANGED <<forestVars, collVars, workerState, caches, activatePc, keyList, deleting>>

\* fetch rejects: the catch callback runs and calls caches.match
NetworkError(i) ==
    /\ events[i].pc = "fetch"
    /\ events' = [events EXCEPT ![i].network = "failed", ![i].pc = "catch"]
    /\ UNCHANGED <<forestVars, collVars, workerState, caches, activatePc, keyList, deleting>>

\* caches.match(e.request).then(cacheResp => cacheResp || resp)
Match(i) ==
    /\ events[i].pc = "match"
    /\ LET cacheResp == CachesMatch(caches, events[i].request)
       IN  events' = [events EXCEPT ![i].answer = IF cacheResp # NoResponse
                                                    THEN cacheResp ELSE events[i].resp,
                                    ![i].pc = "answered"]
    /\ UNCHANGED <<forestVars, collVars, workerState, caches, activatePc, keyList, deleting>>

\* caches.open(store) resolves
Open(i) ==
    /\ events[i].pc = "open"
    /\ caches' = CachesOpen(caches, store)
    /\ events' = [events EXCEPT ![i].pc = "put"]
    /\ UNCHANGED <<forestVars, collVars, workerState, activatePc, keyList, deleting>>

\* cache.put(e.request, resp.clone()): it stores the clone and resolves, or
\* rejects, and then the catch callback runs and calls caches.match
Put(i) ==
    /\ events[i].pc = "put"
    /\ IF PutRejects(events[i].request)
         THEN /\ events' = [events EXCEPT ![i].pc = "catch"]
              /\ UNCHANGED caches
         ELSE /\ caches' = CachePut(caches, store, events[i].request.url,
                                    Clone(events[i].resp))
              /\ events' = [events EXCEPT ![i].pc = "resp", ![i].put = TRUE]
    /\ UNCHANGED <<forestVars, collVars, workerState, activatePc, keyList, deleting>>

\* .then(() => resp)
Resp(i) ==
    /\ events[i].pc = "resp"
    /\ events' = [events EXCEPT ![i].answer = events[i].resp, ![i].pc = "answered"]
    /\ UNCHANGED <<forestVars, collVars, workerState, caches, activatePc, keyList, deleting>>

\* .catch((err) => caches.match(e.request)) resolves
Catch(i) ==
    /\ events[i].pc = "catch"
    /\ events' = [events EXCEPT ![i].answer = CachesMatch(caches, events[i].request),
                                ![i].pc = "answered"]
    /\ UNCHANGED <<forestVars, collVars, workerState, caches, activatePc, keyList, deleting>>

NextSW ==
    \/ InstallOpen
    \/ InstallAddAll
    \/ Activate
    \/ ActivateKeys
    \/ \E key \in deleting : Deleted(key)
    \/ ActivateResolved
    \/ \E request \in Requests : Fetch(request)
    \/ \E i \in 1 .. Len(events), resp \in NetworkResponses : Then(i, resp)
    \/ \E i \in 1 .. Len(events) : NetworkError(i)
    \/ \E i \in 1 .. Len(events) : Match(i)
    \/ \E i \in 1 .. Len(events) : Open(i)
    \/ \E i \in 1 .. Len(events) : Put(i)
    \/ \E i \in 1 .. Len(events) : Resp(i)
    \/ \E i \in 1 .. Len(events) : Catch(i)

SpecSW == InitSW /\ [][NextSW]_vars

\* the cache named store, if there is one, with its entries
StoreCache(cs) == SelectSeq(cs, LAMBDA ch : ch.name = store)

\* C35: once the promise the activate handler gave to waitUntil has resolved,
\* no cache with a name other than store is left: every such key of the
\* keyList has been deleted; and no step of the activation deletes the cache
\* named store or changes an entry in it.
C35_ActivateKeepsStoreOnly ==
    /\ [](activatePc = "resolved" =>
             /\ CacheNames(caches) \subseteq {store}
             /\ \A i \in 1 .. Len(keyList) :
                   keyList[i] # store => keyList[i] \notin CacheNames(caches))
    /\ [][workerState = "activating" => StoreCache(caches') = StoreCache(caches)]_vars

\* the worker was activated among two caches of earlier versions and a store
\* that install had filled: the promise has resolved and the store is there
C35_Witness ==
    /\ activatePc = "resolved"
    /\ Len(keyList) = 3
    /\ keyList[3] # store
    /\ store \in CacheNames(caches)
    /\ StoreCache(caches)[1].entries["./passgen.js"] # NoResponse

\* the events answered by this step
Answered(i) == events[i].pc # "answered" /\ events'[i].pc = "answered"

\* the answer event i gets in this step is the one a network-first handler
\* owes it
NetworkFirstAnswer(i) ==
    CASE events[i].network = "failed" ->
            /\ ~events[i].put
            /\ events'[i].answer = CachesMatch(caches, events[i].request)
      [] events[i].network = "response" /\ NotCacheable(events[i].resp) ->
            /\ ~events[i].put
            /\ events'[i].answer =
                  IF CachesMatch(caches, events[i].request) # NoResponse
                    THEN CachesMatch(caches, events[i].request)
                    ELSE events[i].resp
      [] OTHER ->
            /\ events[i].put
            /\ events'[i].answer = events[i].resp

\* C36: network first.  An event whose network response has status 200 and
\* type basic is answered with that response, after a clone of it was put in
\* the store under the request; an event with any other network response is
\* answered with the cached entry for the request, or with the network
\* response if there is none, and puts nothing; an event whose network
\* request failed is answered with the cached entry for the request, or with
\* nothing, and puts nothing.
C36_NetworkFirst ==
    [][\A i \in 1 .. Len(events) :
          /\ (events[i].put # events'[i].put) =>
                /\ store \in CacheNames(caches')
                /\ StoreCache(caches')[1].entries[events[i].request.url]
                      = Clone(events[i].resp)
          /\ Answered(i) => NetworkFirstAnswer(i)]_vars

\* the events whose request has the method GET are answered that way
NetworkFirstForGet ==
    [][\A i \in 1 .. Len(events) :
          (Answered(i) /\ events[i].request.method = "GET") => NetworkFirstAnswer(i)]_vars

\* ------------------------------------------------------------------------
\* the factories of collectors: Collector.of and the collectors of
\* Collectors that wrap downstream collectors
\* ------------------------------------------------------------------------

\* Collectors.CH_ID
CH_ID == {"IDENTITY_FINISH"}

\* a Supplier<A> and an IntFunction<A> as arguments: the container they make
\* and, for an IntFunction, whether it heeds its argument
SupplierArgs == [kind : Kinds]
SizedSupplierArgs == [kind : Kinds, sized : BOOLEAN]

\* downstream.supplier() and downstream.sizedSupplier()
supplier(cl) == [kind |-> cl.kind]
sizedSupplier(cl) == [kind |-> cl.kind, sized |-> cl.sized]

\* ignored -> supplier.get()
Ignored(sp) == [kind |-> sp.kind, sized |-> FALSE]

\* new CollectorImpl<>(sizedSupplier, supplier, accumulator, combiner,
\* finisher, characteristics)
CollectorImpl(ss, sp, characteristics) ==
    [kind |-> sp.kind, sized |-> ss.sized, characteristics |-> characteristics]

\* the constructors without a sized supplier:
\* this(ignored -> supplier.get(), supplier, ...)
CollectorImplUnsized(sp, characteristics) == CollectorImpl(Ignored(sp), sp, characteristics)

\* an overload without finisher that takes the characteristics as passed
OfCharacteristics_AsPassed(passed) == passed

\* (characteristics.length == 0) ? Collectors.CH_ID
\*                                : EnumSet.of(IDENTITY_FINISH, characteristics)
OfCharacteristics(passed) == IF passed = {} THEN CH_ID ELSE {"IDENTITY_FINISH"} \cup passed

\* a wrapper built as before the patch: new CollectorImpl<>(downstream.supplier(), ...)
Wrapped_Unsized(downstream, characteristics) ==
    CollectorImplUnsized(supplier(downstream), characteristics)

\* new CollectorImpl<>(downstream.sizedSupplier(), downstream.supplier(), ...)
Wrapped(downstream, characteristics) ==
    CollectorImpl(sizedSupplier(downstream), supplier(downstream), characteristics)

\* a PairBox(int) that makes right with the plain supplier
PairBoxSized_RightUnsized(downstream1, downstream2, initialSize) ==
    [kind |-> "pair", left |-> SizedSupplier(downstream1, initialSize),
     right |-> Supplier(downstream2)]

\* PairBox(int initialSize)
PairBoxSized(downstream1, downstream2, initialSize) ==
    [kind |-> "pair", left |-> SizedSupplier(downstream1, initialSize),
     right |-> SizedSupplier(downstream2, initialSize)]

\* PairBox()
PairBoxNew(downstream1, downstream2) ==
    [kind |-> "pair", left |-> Supplier(downstream1), right |-> Supplier(downstream2)]

Wrappers == {"mapping", "flatMapping", "filtering", "collectingAndThen"}

InitMake ==
    /\ NoForest
    /\ NoServiceWorker
    /\ collector = [kind |-> "list", sized |-> FALSE, characteristics |-> {}]
    /\ input = <<>>
    /\ isParallel = FALSE
    /\ isOrdered = TRUE
    /\ exactSize = UnknownSize
    /\ collectPc = "make"
    /\ strategy = "none"
    /\ opRes = NoContainer
    /\ sinks = <<>>
    /\ container = NoContainer
    /\ collected = NoContainer
    /\ calls = NoCalls
    /\ factory = NotMade

\* what a factory leaves alone
MakeFrame ==
    UNCHANGED <<swVars, forestVars, input, isParallel, isOrdered, exactSize, strategy,
                opRes, sinks, container, collected, calls>>

\* Collector.of(supplier, accumulator, combiner, characteristics...)
Of(sp, passed) ==
    /\ collectPc = "make"
    /\ collector' = CollectorImpl(Ignored(sp), sp, OfCharacteristics(passed))
    /\ factory' = [by |-> "of", downstream |-> <<>>, finisher |-> FALSE, passed |-> passed]
    /\ collectPc' = "made"
    /\ MakeFrame

\* Collector.of(supplier, accumulator, combiner, finisher, characteristics...)
OfFinisher(sp, passed) ==
    /\ collectPc = "make"
    /\ collector' = CollectorImpl(Ignored(sp), sp, passed)
    /\ factory' = [by |-> "of", downstream |-> <<>>, finisher |-> TRUE, passed |-> passed]
    /\ collectPc' = "made"
    /\ MakeFrame

\* Collector.of(sizedSupplier, supplier, accumulator, combiner, characteristics...)
OfSized(ss, sp, passed) ==
    /\ collectPc = "make"
    /\ collector' = CollectorImpl(ss, sp, OfCharacteristics(passed))
    /\ factory' = [by |-> "ofSized", downstream |-> <<>>, finisher |-> FALSE,
                   passed |-> passed]
    /\ collectPc' = "made"
    /\ MakeFrame

\* Collector.of(sizedSupplier, supplier, accumulator, combiner, finisher,
\* characteristics...)
OfSizedFinisher(ss, sp, passed) ==
    /\ collectPc = "make"
    /\ collector' = CollectorImpl(ss, sp, passed)
    /\ factory' = [by |-> "ofSized", downstream |-> <<>>, finisher |-> TRUE,
                   passed |-> passed]
    /\ collectPc' = "made"
    /\ MakeFrame

\* Collectors.mapping(mapper, downstream), flatMapping(mapper, downstream)
\* and filtering(predicate, downstream)
Wrap(by, downstream) ==
    /\ collectPc = "make"
    /\ by \in Wrappers \ {"collectingAndThen"}
    /\ collector' = Wrapped(downstream, downstream.characteristics)
    /\ factory' = [by |-> by, downstream |-> <<downstream>>, finisher |-> TRUE,
                   passed |-> {}]
    /\ collectPc' = "made"
    /\ MakeFrame

\* Collectors.collectingAndThen(downstream, finisher): the characteristics
\* are the downstream's without IDENTITY_FINISH
CollectingAndThen(downstream) ==
    /\ collectPc = "make"
    /\ collector' = Wrapped(downstream, downstream.characteristics \ {"IDENTITY_FINISH"})
    /\ factory' = [by |-> "collectingAndThen", downstream |-> <<downstream>>,
                   finisher |-> TRUE, passed |-> {}]
    /\ collectPc' = "made"
    /\ MakeFrame

\* Collectors.teeing(downstream1, downstream2, merger): the container is a
\* PairBox, made by PairBox::new for both suppliers
Teeing(downstream1, downstream2) ==
    /\ collectPc = "make"
    /\ collector' = [kind |-> "pair", sized |-> TRUE,
                     characteristics |-> (downstream1.characteristics
                                            \cap downstream2.characteristics)
                                         \ {"IDENTITY_FINISH"}]
    /\ factory' = [by |-> "teeing", downstream |-> <<downstream1, downstream2>>,
                   finisher |-> TRUE, passed |-> {}]
    /\ collectPc' = "made"
    /\ MakeFrame

\* collector.sizedSupplier().apply(n) on a wrapper or a teeing collector
SizedNew(n) ==
    /\ collectPc = "made"
    /\ factory.by \in Wrappers \cup {"teeing"}
    /\ container' = IF factory.by = "teeing"
                      THEN PairBoxSized(factory.downstream[1], factory.downstream[2], n)
                      ELSE SizedSupplier(collector, n)
    /\ calls' = [calls EXCEPT !.sizedSupplier = Append(@, [size |-> Long(n), arg |-> n])]
    /\ collectPc' = "new"
    /\ UNCHANGED <<swVars, forestVars, factory, collector, input, isParallel, isOrdered,
                   exactSize, strategy, opRes, sinks, collected>>

\* collector.supplier().get() on a wrapper or a teeing collector
New ==
    /\ collectPc = "made"
    /\ factory.by \in Wrappers \cup {"teeing"}
    /\ container' = IF factory.by = "teeing"
                      THEN PairBoxNew(factory.downstream[1], factory.downstream[2])
                      ELSE Supplier(collector)
    /\ calls' = [calls EXCEPT !.supplier = @ + 1]
    /\ collectPc' = "new"
    /\ UNCHANGED <<swVars, forestVars, factory, collector, input, isParallel, isOrdered,
                   exactSize, strategy, opRes, sinks, collected>>

\* stream.collect(collector), for a collector made by Collector.of, on a
\* sequential stream: of known size or not
Collect(in, sized) ==
    /\ collectPc = "made"
    /\ factory.by \in {"of", "ofSized"}
    /\ input' = in
    /\ exactSize' = IF sized THEN Long(Len(in)) ELSE UnknownSize
    /\ collectPc' = "start"
    /\ UNCHANGED <<swVars, forestVars, factory, collector, isParallel, isOrdered, strategy,
                   opRes, sinks, container, collected, calls>>

NextMake ==
    \/ \E sp \in SupplierArgs, passed \in SUBSET Characteristics : Of(sp, passed)
    \/ \E sp \in SupplierArgs, passed \in SUBSET Characteristics : OfFinisher(sp, passed)
    \/ \E sp \in SupplierArgs, z \in BOOLEAN, passed \in SUBSET Characteristics :
          OfSized([kind |-> sp.kind, sized |-> z], sp, passed)
    \/ \E sp \in SupplierArgs, z \in BOOLEAN, passed \in SUBSET Characteristics :
          OfSizedFinisher([kind |-> sp.kind, sized |-> z], sp, passed)
    \/ \E by \in Wrappers, downstream \in Collectors : Wrap(by, downstream)
    \/ \E downstream \in Collectors : CollectingAndThen(downstream)
    \/ \E downstream1, downstream2 \in Collectors : Teeing(downstream1, downstream2)
    \/ \E n \in 0 .. MaxInput : SizedNew(n)
    \/ New
    \/ \E in \in Inputs, sized \in BOOLEAN : Collect(in, sized)
    \/ CollectReduce
    \/ \E i \in 1 .. Len(sinks) : Begin(i)
    \/ \E i \in 1 .. Len(sinks) : Accept(i)
    \/ Evaluated
    \/ Finish

SpecMake == InitMake /\ [][NextMake]_vars

\* C37: a collector made by mapping, flatMapping, filtering or
\* collectingAndThen has the supplier and the sized supplier of its
\* downstream: for every n its sized supplier returns what the downstream's
\* returns for n, and the container a call gave is the one the same call
\* gives on the downstream.  The sized constructor of the PairBox of teeing
\* gives the same n to the sized suppliers of both downstreams, and the
\* constructor without argument calls both plain suppliers.
C37_WrappersExposeDownstream ==
    /\ (collectPc # "make" /\ factory.by \in Wrappers) =>
          LET downstream == factory.downstream[1]
          IN  /\ Supplier(collector) = Supplier(downstream)
              /\ \A n \in 0 .. MaxInput :
                    SizedSupplier(collector, n) = SizedSupplier(downstream, n)
              /\ collectPc = "new" =>
                    container = IF calls.sizedSupplier # <<>>
                                  THEN SizedSupplier(downstream, calls.sizedSupplier[1].arg)
                                  ELSE Supplier(downstream)
    /\ (collectPc = "new" /\ factory.by = "teeing") =>
          LET downstream1 == factory.downstream[1]
              downstream2 == factory.downstream[2]
          IN  IF calls.sizedSupplier # <<>>
                THEN /\ calls.supplier = 0
                     /\ container.left
                          = SizedSupplier(downstream1, calls.sizedSupplier[1].arg)
                     /\ container.right
                          = SizedSupplier(downstream2, calls.sizedSupplier[1].arg)
                ELSE /\ calls.supplier = 1
                     /\ container.left = Supplier(downstream1)
                     /\ container.right = Supplier(downstream2)

\* the sized supplier of a filtering collector over a sized toSet-like
\* downstream was called with 3 and gave the HashSet the downstream makes for 3
C37_Witness ==
    /\ collectPc = "new"
    /\ factory.by = "filtering"
    /\ factory.downstream[1].sized
    /\ factory.downstream[1].kind = "set"
    /\ Len(calls.sizedSupplier) = 1
    /\ calls.sizedSupplier[1].arg = 3
    /\ container = HashSetSized(3)
    /\ container # HashSetNew

\* C38: a collector made by an overload of Collector.of that takes no
\* finisher has IDENTITY_FINISH among its characteristics, together with
\* those the caller passed, whatever they are; collect() never calls its
\* finisher and returns the container the evaluation ended with.
C38_OfIsIdentityFinish ==
    (factory.by \in {"of", "ofSized"} /\ ~factory.finisher) =>
        /\ "IDENTITY_FINISH" \in collector.characteristics
        /\ collector.characteristics = factory.passed \cup {"IDENTITY_FINISH"}
        /\ calls.finisher = 0
        /\ collectPc = "returned" =>
              /\ collected = container
              /\ container = sinks[1].state
              /\ collected.kind = collector.kind

\* collect() has returned for a list collector made by
\* Collector.of(supplier, accumulator, combiner) with no characteristics
\* passed, over two elements or more: the result is the ArrayList itself
C38_Witness ==
    /\ factory.by = "of"
    /\ ~factory.finisher
    /\ factory.passed = {}
    /\ collector.kind = "list"
    /\ collectPc = "returned"
    /\ Len(input) >= 2
    /\ collected = container
    /\ collected.list = input

====
